---- MODULE Spec2Model ----
(***************************************************************************)
(* Conversation state machines of the three campaigns of AiChatBot:        *)
(* Tabung Warisan (Campaign2), Tabung Perubatan (Campaign4) and            *)
(* Perlindungan Combo (Campaign5), with the lead sink of Google_Sheet.py.  *)
(*                                                                         *)
(* A Python str is a sequence of one-character strings, so that lower(),   *)
(* strip(), isdigit(), int(), float() and the substring tests of the code  *)
(* are computed and not assumed.  A Python value is a tagged record.       *)
(***************************************************************************)
EXTENDS Integers, Sequences, FiniteSets, TLC

VARIABLES campaign, states, inbox, last_call, response, sheet_calls, declined, calc,
          alone, logged, entered, tasks

vars == <<campaign, states, inbox, last_call, response, sheet_calls, declined, calc,
          alone, logged, entered, tasks>>

-----------------------------------------------------------------------------
(* Python strings *)

UpperCase == <<"A","B","C","D","E","F","G","H","I","J","K","L","M",
               "N","O","P","Q","R","S","T","U","V","W","X","Y","Z">>

LowerCase == <<"a","b","c","d","e","f","g","h","i","j","k","l","m",
               "n","o","p","q","r","s","t","u","v","w","x","y","z">>

Digits == <<"0","1","2","3","4","5","6","7","8","9">>

WhiteSpace == {" ", "\t", "\n"}

IndexOf(seq, c) == CHOOSE i \in 1..Len(seq) : seq[i] = c

InSeq(seq, c) == \E i \in 1..Len(seq) : seq[i] = c

\* str.lower(), one character
LowerChar(c) == IF InSeq(UpperCase, c) THEN LowerCase[IndexOf(UpperCase, c)] ELSE c

\* str.lower()
Lower(s) == [i \in 1..Len(s) |-> LowerChar(s[i])]

RECURSIVE LStrip(_)
LStrip(s) == IF s # <<>> /\ Head(s) \in WhiteSpace THEN LStrip(Tail(s)) ELSE s

RECURSIVE RStrip(_)
RStrip(s) ==
  IF s # <<>> /\ s[Len(s)] \in WhiteSpace THEN RStrip(SubSeq(s, 1, Len(s) - 1)) ELSE s

\* str.strip()
Strip(s) == RStrip(LStrip(s))

\* c.isdigit(), for the ASCII digits
IsDigit(c) == InSeq(Digits, c)

DigitVal(c) == IndexOf(Digits, c) - 1

\* str.isdigit(): non-empty and all digits
StrIsDigit(s) == s # <<>> /\ \A i \in 1..Len(s) : IsDigit(s[i])

RECURSIVE NatOf(_)
\* the value of a string of digits
NatOf(s) == IF s = <<>> THEN 0 ELSE 10 * NatOf(SubSeq(s, 1, Len(s) - 1)) + DigitVal(s[Len(s)])

\* `sub in s` for strings
Contains(s, sub) ==
  \E i \in 0..(Len(s) - Len(sub)) : SubSeq(s, i + 1, i + Len(sub)) = sub

\* any(w in s for w in words)
ContainsAny(s, words) == \E w \in words : Contains(s, w)

\* the index of the first sep in s, as a set: empty when s holds none
FirstIndex(s, sep) == { k \in 1..Len(s) : s[k] = sep /\ \A j \in 1..(k - 1) : s[j] # sep }

RECURSIVE Split(_, _)
\* str.split(sep) for a one-character separator
Split(s, sep) ==
  IF ~InSeq(s, sep) THEN <<s>>
  ELSE CHOOSE parts \in { <<SubSeq(s, 1, i - 1)>> \o Split(SubSeq(s, i + 1, Len(s)), sep) :
                          i \in FirstIndex(s, sep) } : TRUE

-----------------------------------------------------------------------------
(* Python values *)

Absent == [t |-> "absent"]     \* a key a dict does not hold
PNone  == [t |-> "none"]
PInf   == [t |-> "inf"]        \* float('inf')
PInt(n)   == [t |-> "int", v |-> n]
PStr(s)   == [t |-> "str", v |-> s]
PBool(b)  == [t |-> "bool", v |-> b]
PCents(n) == [t |-> "float", v |-> n]   \* a float amount of money, in cents

IsInt(x) == x.t = "int"
IsStr(x) == x.t = "str"

\* bool(x)
Truthy(x) ==
  CASE x.t = "absent" -> FALSE
    [] x.t = "none"   -> FALSE
    [] x.t = "inf"    -> TRUE
    [] x.t = "int"    -> x.v # 0
    [] x.t = "float"  -> x.v # 0
    [] x.t = "bool"   -> x.v
    [] x.t = "str"    -> x.v # <<>>

\* d.get(key): None for a missing key
Get(x) == IF x = Absent THEN PNone ELSE x

\* d.get(key, default)
GetOr(x, default) == IF x = Absent THEN default ELSE x

\* a or b
Or(a, b) == IF Truthy(a) THEN a ELSE b

Ok(v)      == [ok |-> TRUE, v |-> v]
Raise(exc) == [ok |-> FALSE, exc |-> exc]

\* int(s) for a str: optional sign, digits, surrounding whitespace
IntOfStr(s) ==
  LET b == Strip(s)
      neg == b # <<>> /\ Head(b) = "-"
      d == IF b # <<>> /\ Head(b) \in {"-", "+"} THEN Tail(b) ELSE b
  IN  IF StrIsDigit(d) THEN Ok(IF neg THEN 0 - NatOf(d) ELSE NatOf(d))
      ELSE Raise("ValueError")

\* int(x)
PyInt(x) ==
  CASE x.t = "int"   -> Ok(x.v)
    [] x.t = "bool"  -> Ok(IF x.v THEN 1 ELSE 0)
    [] x.t = "float" -> Ok(x.v \div 100)
    [] x.t = "str"   -> IntOfStr(x.v)
    [] x.t = "inf"   -> Raise("OverflowError")
    [] OTHER         -> Raise("TypeError")

IsDigitOrDot(c) == IsDigit(c) \/ c = "."

\* float(s) for a string of digits and dots, in cents
FloatOfDigits(s) ==
  LET parts == Split(s, ".")
      frac == IF Len(parts) = 2 THEN parts[2] ELSE <<>>
      pad == SubSeq(frac \o <<"0", "0">>, 1, 2)
  IN  IF Len(parts) > 2 \/ ~\E i \in 1..Len(s) : IsDigit(s[i])
      THEN Raise("ValueError")
      ELSE Ok(NatOf(parts[1]) * 100 + NatOf(pad))

-----------------------------------------------------------------------------
(* Sessions, messages, contexts, responses *)

Campaigns == {"warisan", "perubatan", "combo"}

Users == {"u1"}

\* the keys of a session's user_data dict that the campaigns read or write
UserData0 ==
  [name |-> Absent, dob |-> Absent, email |-> Absent, age |-> Absent,
   next_step |-> Absent, package_tier |-> Absent, package_choice |-> Absent,
   package_name |-> Absent, annual_premium |-> Absent, monthly_premium |-> Absent,
   contact_requested |-> Absent]

TabungWarisanState ==
  [current_step |-> "welcome", user_data |-> UserData0, user_name |-> PNone,
   user_age |-> PNone, desired_legacy |-> PNone, welcome_shown |-> FALSE]

TabungPerubatanState ==
  [current_step |-> "welcome", user_data |-> UserData0, age |-> PNone,
   coverage_level |-> PNone, name |-> PNone]

CampaignState ==
  [current_step |-> "welcome", user_data |-> UserData0, age |-> PNone,
   package_tier |-> PNone]

\* a user id that is not a key of self.states
NoSession == [current_step |-> "(no session)"]

NewState(c) ==
  CASE c = "warisan"   -> TabungWarisanState
    [] c = "perubatan" -> TabungPerubatanState
    [] c = "combo"     -> CampaignState

\* a store that hands every user the first user's session
get_state_of_first(c, sts, u) == IF sts["u1"] = NoSession THEN NewState(c) ELSE sts["u1"]

\* get_state(user_id): the user's session, created on first use
get_state(c, sts, u) == IF sts[u] = NoSession THEN NewState(c) ELSE sts[u]

\* a structured payload {value?, text?}
Dict(value, text) == [t |-> "dict", value |-> value, text |-> text]

\* str(message) of a payload; exact for the empty payload, the only payload of
\* Messages that has neither a truthy value nor a truthy text
StrOfDict(m) == IF m.value = Absent /\ m.text = Absent THEN <<"{","}">> ELSE <<"{",".",".",".","}">>

\* the context argument user_data: None, or a dict with some of these keys
Ctx(age, name, email) == [t |-> "dict", age |-> age, name |-> name, email |-> email]

CtxTruthy(ctx) ==
  ctx.t = "dict" /\ (ctx.age # Absent \/ ctx.name # Absent \/ ctx.email # Absent)

\* state.user_data.update(user_data)
Update(ud, ctx) ==
  [ud EXCEPT !.age = IF ctx.age # Absent THEN ctx.age ELSE @,
             !.name = IF ctx.name # Absent THEN ctx.name ELSE @,
             !.email = IF ctx.email # Absent THEN ctx.email ELSE @]

NoStep == "(none)"

\* a response dict: its type, which of the code's response literals it is (kind),
\* its next_step (NoStep when the literal has none), its buttons' values, and the
\* premium figures its content shows (PNone when it shows none)
Resp(type, kind, next_step, buttons) ==
  [type |-> type, kind |-> kind, next_step |-> next_step, buttons |-> buttons,
   annual |-> PNone, monthly |-> PNone]

Estimate(type, kind, next_step, buttons, annual, monthly) ==
  [type |-> type, kind |-> kind, next_step |-> next_step, buttons |-> buttons,
   annual |-> annual, monthly |-> monthly]

\* an exception that leaves process_message
Escaped(exc) == Resp("(raised)", exc, NoStep, <<>>)

\* the request has no response yet
NoResponse == Resp("(pending)", "", NoStep, <<>>)

\* what one call did: the session it leaves (NoSession when it deleted it), the
\* response, the rows it handed to append_row_to_sheet, and the branch of
\* process_message that produced the response
Result(st, resp, rows, branch) == [st |-> st, resp |-> resp, rows |-> rows, branch |-> branch]

\* messages every campaign is sent: the commands, the yes/no answers, free text and
\* structured payloads
CommonMessages ==
  { PStr(<<"m","a","i","n","_","m","e","n","u">>), PStr(<<" ","M","a","i","n","_","M","e","n","u"," ">>), PStr(<<"r","e","s","t","a","r","t">>), PStr(<<"s","t","a","r","t">>),
    PStr(<<"y","e","s">>), PStr(<<"n","o">>), PStr(<<"a","b","c">>),
    Dict(PStr(<<"m","a","i","n","_","m","e","n","u">>), Absent), Dict(Absent, PStr(<<"y","e","s">>)),
    Dict(PInt(3), Absent), Dict(Absent, Absent) }

\* the messages a user or a transport sends to campaign c
Messages(c) ==
  CommonMessages \cup
  ( CASE c = "warisan" ->
           { PStr(<<"1","0","0","0","0","0","0">>), PStr(<<"o","t","h","e","r","_","a","m","o","u","n","t">>), PStr(<<"5","0","0">>),
             PStr(<<"1","7">>), PStr(<<"4","0">>), PStr(<<"7","1">>),
             PStr(<<"c","o","n","t","a","c","t","_","a","g","e","n","t">>), PStr(<<"n","o","_","c","o","n","t","a","c","t">>) }
      [] c = "perubatan" ->
           { PStr(<<"e","s","t","i","m","a","t","e">>), PStr(<<"1">>), PStr(<<"2">>), PStr(<<"3">>),
             PStr(<<"c","o","n","t","a","c","t","_","a","g","e","n","t">>), PStr(<<"o","t","h","e","r">>) }
      [] c = "combo" ->
           { PStr(<<"l","e","a","r","n","_","m","o","r","e">>), PStr(<<"n","o","t","_","n","o","w">>), PStr(<<"s","h","o","w","_","e","s","t","i","m","a","t","e">>),
             PStr(<<"1","7">>), PStr(<<"4","0">>), PStr(<<"5","8">>), PStr(<<"7","1">>), PStr(<<"1">>) } )

\* the answers drawn for Combo's free-text onboarding questions, which store the
\* message as it came
OnboardingAnswers(next_step) ==
  { PStr(<<"m","a","i","n","_","m","e","n","u">>) } \cup
  ( CASE next_step = PStr(<<"g","e","t","_","n","a","m","e">>)  -> { PStr(<<"A","n","n">>), PStr(<<"s","t","a","r","t">>) }
      [] next_step = PStr(<<"g","e","t","_","d","o","b">>)   -> { PStr(<<"0","1","/","0","2","/","1","9","8","6">>), PStr(<<"0","1","/","0","2","/","2","0","1","5">>), PStr(<<"a","b","c">>) }
      [] next_step = PStr(<<"g","e","t","_","e","m","a","i","l">>) -> { PStr(<<"a","@","b",".","c">>) } )

\* the messages drawn for a session of campaign c
Sendable(c, st) ==
  IF "user_data" \in DOMAIN st
     /\ st.user_data.next_step \in { PStr(<<"g","e","t","_","n","a","m","e">>), PStr(<<"g","e","t","_","d","o","b">>), PStr(<<"g","e","t","_","e","m","a","i","l">>) }
  THEN OnboardingAnswers(st.user_data.next_step)
  ELSE Messages(c)

\* context arguments of a call
Contexts(c) ==
  { PNone, Ctx(PInt(17), Absent, Absent), Ctx(PStr(<<"a","b","c">>), Absent, Absent),
    Ctx(PInf, Absent, Absent), Ctx(Absent, PStr(<<"A","n","n">>), Absent),
    Ctx(Absent, PStr(<<>>), Absent) }
  \cup (IF c = "combo" THEN { Ctx(PInt(58), Absent, Absent) }
        ELSE { Ctx(PInt(40), Absent, Absent) })

\* what append_row_to_sheet does when called: it returns, or it raises; in Combo
\* the import may have failed and left the name bound to None
SinkModes(c) == IF c = "combo" THEN {"ok", "raises", "none"} ELSE {"ok", "raises"}

-----------------------------------------------------------------------------
(* Campaign2: Tabung Warisan *)

\* round a non-negative quotient n / d to the nearest integer
RoundDiv(n, d) == (2 * n + d) \div (2 * d)

\* a reset that restores the fields but keeps the step
reset_keeping_step(st) == [TabungWarisanState EXCEPT !.current_step = st.current_step]

\* TabungWarisanState.reset()
reset(st) == TabungWarisanState

\* an estimation whose factor 4.8 ends at age 40
calculate_warisan_premium_estimation_to_40(legacy_amount, age) ==
  LET base_factor10 == IF age <= 40 THEN 48 ELSE IF age <= 45 THEN 90 ELSE 170
  IN  (legacy_amount \div 1000) * base_factor10

\* calculate_warisan_premium_estimation: (legacy_amount / 1000) * base_factor, in
\* tenths of a cent, from the amount in cents (exact for multiples of RM 10)
calculate_warisan_premium_estimation(legacy_amount, age) ==
  LET base_factor10 == IF age <= 35 THEN 48 ELSE IF age <= 45 THEN 90 ELSE 170
  IN  (legacy_amount \div 1000) * base_factor10

\* the annual figure of an estimate: format_currency(premium)
WarisanAnnual(amount, age) ==
  PCents(RoundDiv(calculate_warisan_premium_estimation(amount, age), 10))

\* the monthly figure: format_currency(premium / 12)
WarisanMonthly(amount, age) ==
  PCents(RoundDiv(calculate_warisan_premium_estimation(amount, age), 120))

MainMenuButton == << <<"m","a","i","n","_","m","e","n","u">> >>

LegacyButtons == << <<"5","0","0","0","0","0">>, <<"1","0","0","0","0","0","0">>, <<"1","5","0","0","0","0","0">>, <<"2","0","0","0","0","0","0">>, <<"o","t","h","e","r","_","a","m","o","u","n","t">> >>

ContactButtons == << <<"c","o","n","t","a","c","t","_","a","g","e","n","t">>, <<"n","o","_","c","o","n","t","a","c","t">> >>

WarisanWelcomeResponse ==
  Resp("message", "welcome", "handle_welcome_response", << <<"y","e","s","_","b","e","n","e","f","i","t","s">>, <<"n","o","_","t","h","a","n","k","s">> >>)

WarisanBenefitsResponse ==
  Resp("buttons", "benefits", "handle_benefits_response", << <<"y","e","s","_","c","o","v","e","r","a","g","e">>, <<"n","o","_","t","h","a","n","k","s">> >>)

WarisanUnderAge == Resp("buttons", "under_age", "main_menu", MainMenuButton)

WarisanAgeRange == Resp("message", "age_between_18_and_70", "get_age", <<>>)

WarisanEstimate(kind, amount, age) ==
  Estimate("buttons", kind, "offer_agent_contact", ContactButtons,
           WarisanAnnual(amount, age), WarisanMonthly(amount, age))

\* message.get('value') or message.get('text') or str(message), or str(message)
WarisanPayload(message) ==
  IF message.t = "dict"
  THEN Or(Or(Get(message.value), Get(message.text)), PStr(StrOfDict(message)))
  ELSE message

\* the context merge of process_message; exc names the exception it lets through
WarisanMerge(st, ctx) ==
  IF ~CtxTruthy(ctx) THEN [st |-> st, exc |-> ""]
  ELSE LET s1 == [st EXCEPT !.user_data = Update(@, ctx)]
           a == PyInt(ctx.age)
           hasAge == ctx.age # Absent /\ Truthy(ctx.age)
           s2 == IF hasAge /\ a.ok THEN [s1 EXCEPT !.user_age = PInt(a.v)] ELSE s1
           s3 == IF ctx.name # Absent /\ Truthy(ctx.name)
                 THEN [s2 EXCEPT !.user_name = ctx.name] ELSE s2
       IN  IF hasAge /\ ~a.ok /\ a.exc \notin {"ValueError", "TypeError"}
           THEN [st |-> s1, exc |-> a.exc]
           ELSE [st |-> s3, exc |-> ""]

WarisanLegacyInvalid ==
  Resp("buttons", "select_valid_legacy_amount", "get_legacy_amount", LegacyButtons)

WarisanLegacyMinimum ==
  Resp("buttons", "minimum_legacy_amount", "get_legacy_amount", LegacyButtons)

\* a legacy-amount step whose minimum is RM 100
handle_legacy_amount_from_100(state, message_text) ==
  IF Lower(message_text) \in { <<"o","t","h","e","r">>, <<"o","t","h","e","r"," ","a","m","o","u","n","t">>, <<"o","t","h","e","r","_","a","m","o","u","n","t">> }
  THEN Result([state EXCEPT !.current_step = "get_custom_legacy_amount"],
              Resp("message", "enter_custom_amount", "get_custom_legacy_amount", <<>>),
              <<>>, "get_legacy_amount")
  ELSE
  LET amount == FloatOfDigits(SelectSeq(message_text, IsDigitOrDot))
  IN  IF ~amount.ok THEN Result(state, WarisanLegacyInvalid, <<>>, "get_legacy_amount")
      ELSE IF amount.v < 100 * 100
      THEN Result(state, WarisanLegacyMinimum, <<>>, "get_legacy_amount")
      ELSE
      LET s1 == [state EXCEPT !.desired_legacy = PCents(amount.v)]
      IN  IF Truthy(s1.user_age)
          THEN IF s1.user_age.v < 18
               THEN Result([s1 EXCEPT !.current_step = "main_menu"], WarisanUnderAge,
                           <<>>, "get_legacy_amount")
               ELSE IF s1.user_age.v > 70
               THEN Result([s1 EXCEPT !.current_step = "get_age"], WarisanAgeRange,
                           <<>>, "get_legacy_amount")
               ELSE Result([s1 EXCEPT !.current_step = "offer_agent_contact"],
                           WarisanEstimate("estimate_known_age", amount.v, s1.user_age.v),
                           <<>>, "get_legacy_amount")
          ELSE Result([s1 EXCEPT !.current_step = "get_age"],
                      Resp("message", "ask_age", "get_age", <<>>), <<>>, "get_legacy_amount")

handle_legacy_amount(state, message_text) ==
  IF Lower(message_text) \in { <<"o","t","h","e","r">>, <<"o","t","h","e","r"," ","a","m","o","u","n","t">>, <<"o","t","h","e","r","_","a","m","o","u","n","t">> }
  THEN Result([state EXCEPT !.current_step = "get_custom_legacy_amount"],
              Resp("message", "enter_custom_amount", "get_custom_legacy_amount", <<>>),
              <<>>, "get_legacy_amount")
  ELSE
  LET amount == FloatOfDigits(SelectSeq(message_text, IsDigitOrDot))
  IN  IF ~amount.ok THEN Result(state, WarisanLegacyInvalid, <<>>, "get_legacy_amount")
      ELSE IF amount.v < 1000 * 100
      THEN Result(state, WarisanLegacyMinimum, <<>>, "get_legacy_amount")
      ELSE
      LET s1 == [state EXCEPT !.desired_legacy = PCents(amount.v)]
      IN  IF Truthy(s1.user_age)
          THEN IF s1.user_age.v < 18
               THEN Result([s1 EXCEPT !.current_step = "main_menu"], WarisanUnderAge,
                           <<>>, "get_legacy_amount")
               ELSE IF s1.user_age.v > 70
               THEN Result([s1 EXCEPT !.current_step = "get_age"], WarisanAgeRange,
                           <<>>, "get_legacy_amount")
               ELSE Result([s1 EXCEPT !.current_step = "offer_agent_contact"],
                           WarisanEstimate("estimate_known_age", amount.v, s1.user_age.v),
                           <<>>, "get_legacy_amount")
          ELSE Result([s1 EXCEPT !.current_step = "get_age"],
                      Resp("message", "ask_age", "get_age", <<>>), <<>>, "get_legacy_amount")

\* the custom-amount step, inline in process_message
WarisanCustomLegacyAmount(state, msg_payload) ==
  LET amount == FloatOfDigits(SelectSeq(msg_payload, IsDigitOrDot))
  IN  IF ~amount.ok
      THEN Result(state,
                  Resp("message", "enter_valid_amount", "get_custom_legacy_amount", <<>>),
                  <<>>, "get_custom_legacy_amount")
      ELSE IF amount.v < 1000 * 100
      THEN Result(state,
                  Resp("message", "minimum_custom_amount", "get_custom_legacy_amount", <<>>),
                  <<>>, "get_custom_legacy_amount")
      ELSE
      LET s1 == [state EXCEPT !.desired_legacy = PCents(amount.v)]
      IN  IF Truthy(s1.user_age) /\ 18 <= s1.user_age.v /\ s1.user_age.v <= 70
          THEN Result([s1 EXCEPT !.current_step = "offer_agent_contact"],
                      WarisanEstimate("estimate_known_age", amount.v, s1.user_age.v),
                      <<>>, "get_custom_legacy_amount")
          ELSE Result([s1 EXCEPT !.current_step = "get_age"],
                      Resp("message", "ask_age", "get_age", <<>>),
                      <<>>, "get_custom_legacy_amount")

\* an age step that records what it was sent before it re-prompts
handle_age_recording(state, message_text) ==
  Result([state EXCEPT !.user_age = PInt(Len(message_text))], WarisanAgeRange, <<>>, "get_age")

handle_age(state, message_text) ==
  LET digits == SelectSeq(message_text, IsDigit)
      age == NatOf(digits)
  IN  IF digits = <<>>   \* int('') raises ValueError
      THEN Result(state, WarisanAgeRange, <<>>, "get_age")
      ELSE IF age < 18
      THEN Result([state EXCEPT !.current_step = "main_menu"], WarisanUnderAge, <<>>, "get_age")
      ELSE IF age > 70
      THEN Result(state, WarisanAgeRange, <<>>, "get_age")
      ELSE LET legacy == IF Truthy(state.desired_legacy) THEN state.desired_legacy.v ELSE 0
           IN  Result([state EXCEPT !.user_age = PInt(age),
                                    !.current_step = "offer_agent_contact"],
                      WarisanEstimate("estimate_typed_age", legacy, age), <<>>, "get_age")

\* format_currency(amount): the text of an amount, kept as the amount it shows
format_currency(amount) == [t |-> "currency", v |-> amount]

\* the row handle_agent_contact hands to append_row_to_sheet
WarisanRow(state, contact_status) ==
  << Or(Or(Get(state.user_data.name), state.user_name), PStr(<<"N","/","A">>)),
     GetOr(state.user_data.dob, PStr(<<>>)), GetOr(state.user_data.email, PStr(<<>>)),
     PStr(<<>>), PStr(<<>>), PStr(<<>>), PStr(<<>>), PStr(<<>>),
     PStr(<<"t","a","b","u","n","g","_","w","a","r","i","s","a","n">>), PNone, PNone,
     format_currency(IF Truthy(state.desired_legacy) THEN state.desired_legacy.v ELSE 0),
     PNone, PNone, PNone, PNone, PStr(contact_status) >>

WarisanOfferAgain ==
  Resp("buttons", "offer_agent_contact", "offer_agent_contact", ContactButtons)

handle_agent_contact(state, message, sink) ==
  LET payload == WarisanPayload(message)
      message_value == Strip(Lower(payload.v))
  IN  IF ~IsStr(payload)   \* AttributeError, caught by the handler's own except
      THEN Result(state, Resp("message", "something_went_wrong", "offer_agent_contact", <<>>),
                  <<>>, "offer_agent_contact")
      ELSE IF message_value = <<"c","o","n","t","a","c","t","_","a","g","e","n","t">>
      THEN Result([state EXCEPT !.current_step = "main_menu"],
                  Resp("buttons", "thanks_contact_requested", "main_menu", MainMenuButton),
                  << WarisanRow(state, <<"Y","e","s",","," ","C","o","n","t","a","c","t"," ","R","e","q","u","e","s","t","e","d">>) >>, "offer_agent_contact")
      ELSE IF message_value = <<"n","o","_","c","o","n","t","a","c","t">>
      THEN Result([state EXCEPT !.current_step = "main_menu"],
                  Resp("buttons", "thanks_contact_declined", "main_menu", MainMenuButton),
                  << WarisanRow(state, <<"N","o",","," ","C","o","n","t","a","c","t"," ","D","e","c","l","i","n","e","d">>) >>, "offer_agent_contact")
      ELSE IF message_value \in { <<"m","a","i","n","_","m","e","n","u">>, <<"r","e","s","t","a","r","t">> }
      THEN Result(reset(state), Resp("reset_to_main", "returning", NoStep, <<>>),
                  <<>>, "offer_agent_contact")
      ELSE Result(state, WarisanOfferAgain, <<>>, "offer_agent_contact")

WarisanGlobalCommands == { <<"m","a","i","n","_","m","e","n","u">>, <<"r","e","s","t","a","r","t">>, <<"s","t","a","r","t">> }

WarisanResetResponse == Resp("reset_to_main", "returning_to_main_menu", NoStep, <<>>)

WarisanApology == Resp("message", "apology", "welcome", <<>>)

WarisanYes == { <<"y","e","s">>, <<"y","e","s","_","b","e","n","e","f","i","t","s">>, <<"y","e","s",","," ","t","e","l","l"," ","m","e"," ","m","o","r","e">> }

WarisanNo == { <<"n","o">>, <<"n","o","_","t","h","a","n","k","s">>, <<"m","a","y","b","e"," ","l","a","t","e","r">>, <<"l","a","t","e","r">> }

WarisanYesCoverage == { <<"y","e","s">>, <<"y","e","s","_","c","o","v","e","r","a","g","e">>, <<"y","e","s",","," ","s","h","o","w"," ","m","e">> }

\* the steps of process_message after the global commands
WarisanDispatch(state, message, msg_payload, msg_lower, sink) ==
  IF state.current_step \in {"", "welcome"} \/ ~state.welcome_shown
  THEN Result([state EXCEPT !.current_step = "handle_welcome_response",
                            !.welcome_shown = TRUE],
              WarisanWelcomeResponse, <<>>, "welcome")
  ELSE IF state.current_step = "handle_welcome_response"
  THEN IF msg_lower \in WarisanYes
       THEN Result([state EXCEPT !.current_step = "handle_benefits_response"],
                   WarisanBenefitsResponse, <<>>, "handle_welcome_response")
       ELSE IF msg_lower \in WarisanNo
       THEN Result(state, Resp("buttons", "no_problem", NoStep, MainMenuButton),
                   <<>>, "handle_welcome_response")
       ELSE Result(state, WarisanWelcomeResponse, <<>>, "handle_welcome_response")
  ELSE IF state.current_step = "handle_benefits_response"
  THEN IF msg_lower \in WarisanYesCoverage
       THEN IF Truthy(state.user_age) /\ state.user_age.v < 18
            THEN Result([state EXCEPT !.current_step = "main_menu"], WarisanUnderAge,
                        <<>>, "handle_benefits_response")
            ELSE Result([state EXCEPT !.current_step = "get_legacy_amount"],
                        Resp("buttons", "ask_legacy_amount", "get_legacy_amount", LegacyButtons),
                        <<>>, "handle_benefits_response")
       ELSE IF msg_lower \in WarisanNo
       THEN Result(state, Resp("buttons", "thanks_for_interest", NoStep, MainMenuButton),
                   <<>>, "handle_benefits_response")
       ELSE Result(state, WarisanBenefitsResponse, <<>>, "handle_benefits_response")
  ELSE IF state.current_step = "get_legacy_amount"
  THEN handle_legacy_amount(state, msg_payload)
  ELSE IF state.current_step = "get_custom_legacy_amount"
  THEN WarisanCustomLegacyAmount(state, msg_payload)
  ELSE IF state.current_step = "get_age"
  THEN handle_age(state, msg_payload)
  ELSE IF state.current_step = "offer_agent_contact"
  THEN handle_agent_contact(state, message, sink)
  ELSE IF state.current_step = "main_menu"
  THEN IF msg_lower = <<"m","a","i","n","_","m","e","n","u">>
       THEN Result(reset(state), WarisanResetResponse, <<>>, "main_menu")
       ELSE Result(state, Resp("buttons", "thanks_return_to_menu", "main_menu", MainMenuButton),
                   <<>>, "main_menu")
  ELSE Result(reset(state), Resp("reset_to_main", "returning", NoStep, <<>>),
              <<>>, "unhandled_step")

\* TabungWarisanCampaign.process_message, on the session get_state returned
WarisanProcessMessage(st, message, ctx, sink) ==
  LET m == WarisanMerge(st, ctx)
      msg_payload == WarisanPayload(message)
      msg_lower == Strip(Lower(msg_payload.v))
  IN  IF m.exc # "" THEN Result(m.st, WarisanApology, <<>>, "except")
      ELSE IF ~IsStr(msg_payload)   \* msg_payload.lower() raises AttributeError
      THEN Result(m.st, WarisanApology, <<>>, "except")
      ELSE IF msg_lower \in WarisanGlobalCommands
      THEN Result(reset(m.st), WarisanResetResponse, <<>>, "global")
      ELSE WarisanDispatch(m.st, message, msg_payload.v, msg_lower, sink)

-----------------------------------------------------------------------------
(* Campaign4: Tabung Perubatan *)

RECURSIVE StrOfNat(_)
\* str(n) for n >= 0
StrOfNat(n) == IF n < 10 THEN <<Digits[n + 1]>> ELSE StrOfNat(n \div 10) \o <<Digits[(n % 10) + 1]>>

\* str(x) for the values a payload's text holds
StrOf(x) ==
  CASE x.t = "str" -> x.v
    [] x.t = "int" -> IF x.v < 0 THEN <<"-">> \o StrOfNat(0 - x.v) ELSE StrOfNat(x.v)
    [] OTHER       -> <<"N","o","n","e">>

\* the annual premiums for ages 34 to 64, in cents
age_annual_premiums ==
  << 183330, 185440, 189690, 193100, 195210, 196920, 201510, 215600, 223100, 229400,
     238360, 240560, 258000, 265600, 280000, 286200, 300230, 332860, 360570, 377400,
     395120, 395120, 395120, 395120, 471160, 513620, 513620, 513620, 513620, 797600,
     923260 >>

\* the annual amounts of the table whose twelfth is a half cent exactly but, computed
\* in doubles, lies just below it (1952.10 / 12, 2015.10 / 12, 3605.70 / 12)
BelowHalfCent == {195210, 201510, 360570}

\* round(annual / 12 - less, 2) in cents, as the doubles give it: to the nearest
\* cent, a quotient of BelowHalfCent down and the other half cents up
RoundMonthly(annual, less) ==
  IF annual \in BelowHalfCent THEN (annual - 12 * less) \div 12
  ELSE RoundDiv(annual - 12 * less, 12)

\* estimate_medical_premium(age, coverage_level): the monthly premium in cents, or
\* the error text's name
estimate_medical_premium(age, coverage_level) ==
  IF age = PNone THEN [premium |-> 0, error |-> "age_required"]
  ELSE IF age.v < 18 THEN [premium |-> 0, error |-> "age_at_least_18"]
  ELSE IF age.v > 64 THEN [premium |-> 0, error |-> "age_between_18_and_64"]
  ELSE
  LET base_monthly12 ==   \* twelve times base_monthly
        IF age.v <= 21 THEN 12 * 11300
        ELSE IF age.v <= 25 THEN 12 * 12300
        ELSE IF age.v <= 30 THEN 12 * 13300
        ELSE IF age.v <= 33 THEN 12 * 14300
        ELSE age_annual_premiums[age.v - 33]
  IN  IF coverage_level = 1
      THEN [premium |-> RoundMonthly(base_monthly12, 2000), error |-> ""]
      ELSE IF coverage_level = 3
      THEN [premium |-> RoundMonthly(base_monthly12, 0), error |-> ""]
      ELSE [premium |-> 0, error |-> "invalid_coverage_level"]

PerubatanWelcomeResponse ==
  Resp("message", "welcome", "check_interest_response", << <<"y","e","s">>, <<"n","o">> >>)

\* _get_estimation_question: the response; the caller's state moves to
\* handle_estimation_response
PerubatanEstimationQuestion ==
  Resp("buttons", "estimation_question", NoStep, << <<"y","e","s","_","e","s","t","i","m","a","t","e">>, <<"n","o">> >>)

PerubatanMerge(st, ctx) ==
  IF ~CtxTruthy(ctx) THEN [st |-> st, exc |-> ""]
  ELSE LET s1 == [st EXCEPT !.user_data = Update(@, ctx)]
           a == PyInt(ctx.age)
           hasAge == ctx.age # Absent /\ Truthy(ctx.age)
           s2 == IF hasAge /\ a.ok THEN [s1 EXCEPT !.age = PInt(a.v)] ELSE s1
           s3 == IF ctx.name # Absent /\ Truthy(ctx.name)
                 THEN [s2 EXCEPT !.name = ctx.name] ELSE s2
       IN  IF hasAge /\ ~a.ok /\ a.exc \notin {"ValueError", "TypeError"}
           THEN [st |-> s1, exc |-> a.exc]
           ELSE [st |-> s3, exc |-> ""]

\* str(message.get('text', '') or "").strip(), or str(message or "").strip()
PerubatanText(message) ==
  IF message.t = "dict"
  THEN Strip(StrOf(Or(GetOr(message.text, PStr(<<>>)), PStr(<<>>))))
  ELSE Strip(StrOf(Or(message, PStr(<<>>))))

PerubatanUnderstood ==
  Resp("buttons", "understood", "end_conversation", MainMenuButton)

PerubatanSelectCoverage ==
  Resp("buttons", "select_coverage_level", "get_coverage_level", << <<"1">>, <<"3">> >>)

PerubatanRow(state, contact_status) ==
  << GetOr(state.user_data.name, Or(state.name, PStr(<<"N","/","A">>))),
     GetOr(state.user_data.dob, PStr(<<>>)), GetOr(state.user_data.email, PStr(<<>>)),
     PStr(<<>>), PStr(<<>>), PStr(<<>>), PStr(<<>>), PStr(<<>>),
     PStr(<<"t","a","b","u","n","g","_","p","e","r","u","b","a","t","a","n">>), PNone, PNone, PNone, PNone, PNone,
     PStr(StrOf(Or(state.coverage_level, PStr(<<>>)))), PNone, PStr(contact_status) >>

PerubatanCheckInterest(state, message_lower) ==
  IF ContainsAny(message_lower, { <<"y","e","s">>, <<"y">>, <<"y","a">>, <<"y","e","a","h">>, <<"s","u","r","e">>, <<"o","k">> })
     /\ ~ContainsAny(message_lower, { <<"n","o">>, <<"n">>, <<"n","o","t"," ","n","o","w">>, <<"l","a","t","e","r">> })
  THEN Result([state EXCEPT !.current_step = "handle_estimation_response"],
              Resp("buttons", "plan_explanation", "handle_estimation_response",
                   << <<"y","e","s","_","e","s","t","i","m","a","t","e">>, <<"n","o">> >>),
              <<>>, "check_interest_response")
  ELSE IF Contains(message_lower, <<"e","s","t","i","m","a","t","e">>)
  THEN Result([state EXCEPT !.current_step = "get_coverage_level"],
              PerubatanSelectCoverage, <<>>, "check_interest_response")
  ELSE IF ContainsAny(message_lower, { <<"n","o">>, <<"n">>, <<"n","o","t"," ","n","o","w">>, <<"l","a","t","e","r">> })
  THEN Result([state EXCEPT !.current_step = "end_conversation"],
              PerubatanUnderstood, <<>>, "check_interest_response")
  ELSE Result(state, PerubatanWelcomeResponse, <<>>, "check_interest_response")

PerubatanHandleEstimation(state, message_lower) ==
  IF ContainsAny(message_lower,
                 { <<"y","e","s","_","e","s","t","i","m","a","t","e">>, <<"e","s","t","i","m","a","t","e">>, <<"y","e","s">>, <<"y">>, <<"y","a">>, <<"s","u","r","e">>, <<"o","k">> })
     /\ ~ContainsAny(message_lower, { <<"n","o">>, <<"n">>, <<"n","o","t"," ","n","o","w">> })
  THEN IF state.age # PNone /\ state.age.v < 18
       THEN Result([state EXCEPT !.current_step = "end_conversation"],
                   Resp("buttons", "under_age", "end_conversation", MainMenuButton),
                   <<>>, "handle_estimation_response")
       ELSE Result([state EXCEPT !.current_step = "get_coverage_level"],
                   PerubatanSelectCoverage, <<>>, "handle_estimation_response")
  ELSE IF ContainsAny(message_lower, { <<"n","o">>, <<"n">>, <<"n","o","t"," ","n","o","w">>, <<"l","a","t","e","r">> })
  THEN Result([state EXCEPT !.current_step = "end_conversation"],
              PerubatanUnderstood, <<>>, "handle_estimation_response")
  ELSE Result([state EXCEPT !.current_step = "handle_estimation_response"],
              PerubatanEstimationQuestion, <<>>, "handle_estimation_response")

\* "Sorry, there was an error calculating your premium: {error}"; its kind is the
\* error it quotes
PerubatanPremiumError(error) == Resp("buttons", error, "end_conversation", MainMenuButton)

PerubatanGetCoverageLevel(state, message_lower) ==
  LET coverage_level ==
        IF StrIsDigit(message_lower) THEN NatOf(message_lower)
        ELSE IF ContainsAny(message_lower, { <<"b","a","s","i","c">>, <<"1","8","0","k">> }) THEN 1
        ELSE IF ContainsAny(message_lower, { <<"c","o","m","p","r","e","h","e","n","s","i","v","e">>, <<"1","m">>, <<"1","m","+">> }) THEN 3
        ELSE 0   \* None
      e == estimate_medical_premium(state.age, coverage_level)
      s1 == [state EXCEPT !.coverage_level = PInt(coverage_level)]
  IN  IF coverage_level \notin {1, 3}   \* raise ValueError, caught below
      THEN Result(state,
                  Resp("buttons", "select_valid_coverage_level", "get_coverage_level",
                       << <<"1">>, <<"3">> >>),
                  <<>>, "get_coverage_level")
      ELSE IF e.error # ""
      THEN Result(s1, PerubatanPremiumError(e.error), <<>>, "get_coverage_level")
      ELSE Result([s1 EXCEPT !.current_step = "offer_agent_contact"],
                  Estimate("buttons", "estimate", "offer_agent_contact", ContactButtons,
                           PNone, PCents(e.premium)),
                  <<>>, "get_coverage_level")

PerubatanResetResponse == Resp("reset_to_main", "returning", NoStep, <<>>)

PerubatanOfferAgentContact(state, message_lower) ==
  IF Contains(message_lower, <<"c","o","n","t","a","c","t","_","a","g","e","n","t">>) \/ Contains(message_lower, <<"c","o","n","t","a","c","t"," ","m","e">>)
     \/ Contains(message_lower, <<"y","e","s">>)
  THEN Result([state EXCEPT !.current_step = "contact_confirmed"],
              Resp("buttons", "agent_will_contact", "contact_confirmed", MainMenuButton),
              << PerubatanRow(state, <<"Y","e","s",","," ","C","o","n","t","a","c","t"," ","R","e","q","u","e","s","t","e","d">>) >>, "offer_agent_contact")
  ELSE IF Contains(message_lower, <<"n","o","_","c","o","n","t","a","c","t">>)
          \/ ContainsAny(message_lower, { <<"n","o"," ","t","h","a","n","k","s">>, <<"n","o"," ","t","h","a","n","k"," ","y","o","u">>, <<"n","o">> })
  THEN Result([state EXCEPT !.current_step = "end_options"],
              Resp("buttons", "thanks_for_interest", "end_options", MainMenuButton),
              << PerubatanRow(state, <<"N","o",","," ","C","o","n","t","a","c","t"," ","D","e","c","l","i","n","e","d">>) >>, "offer_agent_contact")
  ELSE IF Contains(message_lower, <<"o","t","h","e","r","_","p","l","a","n","s">>) \/ Contains(message_lower, <<"o","t","h","e","r">>)
  THEN Result([state EXCEPT !.current_step = "show_plans"],
              Resp("buttons", "other_plans", "show_plans",
                   << <<"t","a","b","u","n","g","_","w","a","r","i","s","a","n">>, <<"m","a","s","a","_","d","e","p","a","n","_","a","n","a","k","_","k","i","t","a">>, <<"s","a","t","u","_","g","a","j","i">>, <<"m","a","i","n","_","m","e","n","u">> >>),
              <<>>, "offer_agent_contact")
  ELSE IF message_lower \in { <<"m","a","i","n","_","m","e","n","u">>, <<"r","e","s","t","a","r","t">> }
  THEN Result(NoSession, PerubatanResetResponse, <<>>, "offer_agent_contact")
  ELSE Result(state,
              Resp("buttons", "offer_agent_contact", "offer_agent_contact",
                   << <<"c","o","n","t","a","c","t","_","a","g","e","n","t">>, <<"n","o","_","c","o","n","t","a","c","t">>, <<"m","a","i","n","_","m","e","n","u">> >>),
              <<>>, "offer_agent_contact")

IsNotDigit(c) == ~IsDigit(c)

\* the get_contact_info step: re.sub(r'\d+', '', message_text).strip()
PerubatanGetContactInfo(state, message_text) ==
  LET name == Strip(SelectSeq(message_text, IsNotDigit))
  IN  IF name = <<>>
      THEN Result(state, Resp("message", "provide_valid_name", "get_contact_info", <<>>),
                  <<>>, "get_contact_info")
      ELSE Result([state EXCEPT !.name = PStr(name), !.current_step = "end_conversation"],
                  Resp("message", "thank_you_name", "end_conversation", <<>>),
                  <<>>, "get_contact_info")

PerubatanApology == Resp("message", "apology", "welcome", <<>>)

PerubatanGlobalCommands == { <<"r","e","s","t","a","r","t">>, <<"m","a","i","n","_","m","e","n","u">> }

\* the welcome flow of process_message
PerubatanWelcome(state) ==
  Result([state EXCEPT !.current_step = "check_interest_response"],
         PerubatanWelcomeResponse, <<>>, "welcome")

\* the steps of process_message after the global commands; the unknown-state
\* fallback sets the step to welcome and calls process_message again with "start",
\* which merges the same context again and takes the welcome flow
PerubatanDispatch(state, message_text, message_lower, ctx) ==
  IF state.current_step = "welcome" \/ state.current_step = ""
  THEN PerubatanWelcome(state)
  ELSE IF state.current_step = "check_interest_response"
  THEN PerubatanCheckInterest(state, message_lower)
  ELSE IF state.current_step = "ask_estimation"
  THEN Result([state EXCEPT !.current_step = "welcome"], PerubatanWelcomeResponse,
              <<>>, "ask_estimation")
  ELSE IF state.current_step = "handle_estimation_response"
  THEN PerubatanHandleEstimation(state, message_lower)
  ELSE IF state.current_step = "get_coverage_level"
  THEN PerubatanGetCoverageLevel(state, message_lower)
  ELSE IF state.current_step = "offer_agent_contact"
  THEN PerubatanOfferAgentContact(state, message_lower)
  ELSE IF state.current_step = "get_contact_info"
  THEN PerubatanGetContactInfo(state, message_text)
  ELSE IF state.current_step = "end_conversation"
  THEN Result(state, Resp("message", "have_a_great_day", "end_conversation", <<>>),
              <<>>, "end_conversation")
  ELSE LET again == PerubatanMerge([state EXCEPT !.current_step = "welcome"], ctx)
       IN  IF again.exc # "" THEN Result(again.st, PerubatanApology, <<>>, "except")
           ELSE [PerubatanWelcome(again.st) EXCEPT !.branch = "unknown_state"]

\* TabungPerubatanCampaign.process_message, on the session get_state returned
PerubatanProcessMessage(st, message, ctx, sink) ==
  LET m == PerubatanMerge(st, ctx)
      message_text == PerubatanText(message)
      message_lower == Lower(message_text)
  IN  IF m.exc # "" THEN Result(m.st, PerubatanApology, <<>>, "except")
      ELSE IF message_lower \in PerubatanGlobalCommands
      THEN Result(NoSession, PerubatanResetResponse, <<>>, "global")
      ELSE PerubatanDispatch(m.st, message_text, message_lower, ctx)

-----------------------------------------------------------------------------
(* Campaign5: Perlindungan Combo *)

WelcomeButtons == << <<"l","e","a","r","n","_","m","o","r","e">>, <<"n","o","t","_","n","o","w">> >>

PackageButtons == << <<"1">>, <<"2">>, <<"3">> >>

YesNoButtons == << <<"y","e","s">>, <<"n","o">> >>

\* bands in which Gold costs less from age 36 than before it
package_bands_dipping ==
  << << 240000, 280000, 360000, 400000 >>,
     << 350000, 360000, 320000, 500000 >>,
     << 400000, 540000, 630000, 840000 >> >>

\* the four age bands of a package tier, annual premium in cents
package_bands ==
  << << 240000, 280000, 360000, 400000 >>,
     << 350000, 360000, 420000, 500000 >>,
     << 400000, 540000, 630000, 840000 >> >>

\* a calculator whose 26-35 band ends at 34
calculate_combo_tier_band_to_34(age, package_tier) ==
  IF ~(IsInt(package_tier) /\ package_tier.v \in {1, 2, 3})
  THEN [annual |-> PNone, monthly |-> PNone, error |-> "invalid_package_tier"]
  ELSE IF age.t \notin {"int", "inf"}
  THEN [annual |-> PNone, monthly |-> PNone, error |-> "error_occurred"]
  ELSE IF age.t = "inf" \/ age.v < 18 \/ age.v > 54
  THEN [annual |-> PNone, monthly |-> PNone, error |-> "ages_18_54"]
  ELSE LET age_band == IF age.v <= 25 THEN 1 ELSE IF age.v <= 34 THEN 2
                       ELSE IF age.v <= 44 THEN 3 ELSE 4
           annual_premium == package_bands[package_tier.v][age_band]
       IN  [annual |-> PCents(annual_premium),
            monthly |-> PCents(RoundDiv(annual_premium, 12)), error |-> ""]

\* calculate_combo_tier(age, package_tier), age and package_tier Python values
calculate_combo_tier(age, package_tier) ==
  IF ~(IsInt(package_tier) /\ package_tier.v \in {1, 2, 3})
  THEN [annual |-> PNone, monthly |-> PNone, error |-> "invalid_package_tier"]
  ELSE IF age.t \notin {"int", "inf"}   \* 18 <= age raises TypeError, caught inside
  THEN [annual |-> PNone, monthly |-> PNone, error |-> "error_occurred"]
  ELSE IF age.t = "inf" \/ age.v < 18 \/ age.v > 54
  THEN [annual |-> PNone, monthly |-> PNone, error |-> "ages_18_54"]
  ELSE LET age_band == IF age.v <= 25 THEN 1 ELSE IF age.v <= 35 THEN 2
                       ELSE IF age.v <= 44 THEN 3 ELSE 4
           annual_premium == package_bands[package_tier.v][age_band]
       IN  [annual |-> PCents(annual_premium),
            monthly |-> PCents(RoundDiv(annual_premium, 12)), error |-> ""]

\* date.today()
Today == [year |-> 2026, month |-> 6, day |-> 15]

DaysIn(month, year) ==
  IF month = 2
  THEN IF year % 4 = 0 /\ (year % 100 # 0 \/ year % 400 = 0) THEN 29 ELSE 28
  ELSE IF month \in {4, 6, 9, 11} THEN 30 ELSE 31

\* the age on Today of a date of birth split into day, month and year, or PNone
AgeOfParts(parts) ==
  LET day == IntOfStr(parts[1])
      month == IntOfStr(parts[2])
      year == IntOfStr(parts[3])
      age == Today.year - year.v
             - (IF Today.month < month.v \/ (Today.month = month.v /\ Today.day < day.v)
                THEN 1 ELSE 0)
  IN  IF Len(parts) # 3 THEN PNone
      ELSE IF ~(day.ok /\ month.ok /\ year.ok) THEN PNone
      ELSE IF ~(year.v \in 1..9999 /\ month.v \in 1..12 /\ day.v \in 1..DaysIn(month.v, year.v))
      THEN PNone
      ELSE IF age >= 0 THEN PInt(age) ELSE PNone

\* calculate_age_from_dob(dob_str): the age, or PNone
calculate_age_from_dob(dob_str) ==
  IF ~IsStr(dob_str) THEN PNone   \* AttributeError, caught
  ELSE CHOOSE age \in { AgeOfParts(parts) : parts \in { Split(Strip(dob_str.v), "/") } } : TRUE

ComboWelcomeResponse == Resp("buttons", "welcome", "after_welcome", WelcomeButtons)

ComboUnderAge == Resp("buttons", "under_age", "end_conversation", MainMenuButton)

ComboApology == Resp("message", "apology", "welcome", <<>>)

ComboBenefitsResponse ==
  Resp("buttons", "benefits", "show_benefits_response", << <<"s","h","o","w","_","e","s","t","i","m","a","t","e">>, <<"n","o","t","_","n","o","w">> >>)

\* the context merge at the head of process_message, outside its try block
ComboMerge(st, ctx) ==
  IF ~CtxTruthy(ctx) THEN [st |-> st, exc |-> ""]
  ELSE LET s1 == [st EXCEPT !.user_data = Update(@, ctx)]
           a == PyInt(ctx.age)
           hasAge == ctx.age # Absent /\ Truthy(ctx.age)
           s2 == IF hasAge /\ a.ok
                 THEN [s1 EXCEPT !.age = PInt(a.v), !.user_data.age = PInt(a.v)] ELSE s1
       IN  IF hasAge /\ ~a.ok /\ a.exc \notin {"ValueError", "TypeError"}
           THEN [st |-> s1, exc |-> a.exc]
           ELSE [st |-> s2, exc |-> ""]

\* message.get('value') or message.get('text') or "", or str(message)
ComboContent(message) ==
  IF message.t = "dict"
  THEN Or(Or(Get(message.value), Get(message.text)), PStr(<<>>))
  ELSE message

\* state.age or state.user_data.get('age')
ComboAge(state) == Or(state.age, Get(state.user_data.age))

\* the onboarding questions, taken while user_data holds next_step
ComboOnboarding(state, message_content) ==
  LET next_step == state.user_data.next_step
      calculated_age == calculate_age_from_dob(message_content)
      d1 == [state EXCEPT !.user_data.dob = message_content]
      d2 == IF calculated_age # PNone
            THEN [d1 EXCEPT !.age = calculated_age, !.user_data.age = calculated_age]
            ELSE d1
      age == PyInt(message_content)
  IN  IF next_step = PStr(<<"g","e","t","_","n","a","m","e">>)
      THEN Result([state EXCEPT !.user_data.name = message_content,
                                !.user_data.next_step = PStr(<<"g","e","t","_","d","o","b">>),
                                !.current_step = "get_dob"],
                  Resp("message", "ask_dob", "get_dob", <<>>), <<>>, "onboarding_get_name")
      ELSE IF next_step = PStr(<<"g","e","t","_","d","o","b">>)
      THEN IF calculated_age # PNone /\ calculated_age.v < 18
           THEN Result([d2 EXCEPT !.current_step = "welcome"], ComboUnderAge,
                       <<>>, "onboarding_get_dob")
           ELSE Result([d2 EXCEPT !.user_data.next_step = PStr(<<"g","e","t","_","e","m","a","i","l">>),
                                  !.current_step = "get_email"],
                       Resp("message", "ask_email", "get_email", <<>>),
                       <<>>, "onboarding_get_dob")
      ELSE IF next_step = PStr(<<"g","e","t","_","e","m","a","i","l">>)
      THEN Result([state EXCEPT !.user_data.email = message_content,
                                !.user_data.next_step = PStr(<<"g","e","t","_","a","g","e">>),
                                !.current_step = "get_age"],
                  Resp("message", "ask_age", "get_age", <<>>), <<>>, "onboarding_get_email")
      ELSE \* get_age
      IF ~age.ok
      THEN IF age.exc = "ValueError"
           THEN Result(state, Resp("message", "enter_valid_number", "get_age", <<>>),
                       <<>>, "onboarding_get_age")
           ELSE Result(state, ComboApology, <<>>, "except")
      ELSE IF age.v < 18
      THEN Result([state EXCEPT !.current_step = "welcome"], ComboUnderAge,
                  <<>>, "onboarding_get_age")
      ELSE IF age.v <= 60
      THEN Result([state EXCEPT !.age = PInt(age.v), !.user_data.age = PInt(age.v),
                                !.user_data.next_step = Absent,
                                !.current_step = "after_onboarding"],
                  ComboWelcomeResponse, <<>>, "onboarding_get_age")
      ELSE Result(state, Resp("message", "age_between_18_60", "get_age", <<>>),
                  <<>>, "onboarding_get_age")

OnboardingSteps == { PStr(<<"g","e","t","_","n","a","m","e">>), PStr(<<"g","e","t","_","d","o","b">>), PStr(<<"g","e","t","_","e","m","a","i","l">>), PStr(<<"g","e","t","_","a","g","e">>) }

ComboWelcome(state) ==
  IF ~Truthy(Get(state.user_data.name))
  THEN Result([state EXCEPT !.user_data.next_step = PStr(<<"g","e","t","_","n","a","m","e">>)],
              Resp("message", "ask_name", "get_name", <<>>), <<>>, "welcome")
  ELSE Result([state EXCEPT !.current_step = "after_welcome"], ComboWelcomeResponse,
              <<>>, "welcome")

ComboAfterWelcome(state, normalized_msg) ==
  IF normalized_msg \in { <<"l","e","a","r","n","_","m","o","r","e">>, <<"s","h","o","w","_","b","e","n","e","f","i","t","s">>, <<"b","e","n","e","f","i","t","s">>, <<"y","e","s">> }
  THEN Result([state EXCEPT !.current_step = "show_benefits_response"],
              ComboBenefitsResponse, <<>>, "after_welcome")
  ELSE IF normalized_msg \in { <<"n","o","t","_","n","o","w">>, <<"n","o">>, <<"l","a","t","e","r">> }
  THEN Result([state EXCEPT !.current_step = "end_conversation"],
              Resp("buttons", "feel_free_to_ask_later", "end_conversation", MainMenuButton),
              <<>>, "after_welcome")
  ELSE Result(state, ComboWelcomeResponse, <<>>, "after_welcome")

ComboShowBenefitsResponse(state, normalized_msg) ==
  LET age == ComboAge(state)
  IN  IF normalized_msg = <<"s","h","o","w","_","e","s","t","i","m","a","t","e">>
      THEN IF age # PNone /\ IsInt(age) /\ age.v < 18
           THEN Result([state EXCEPT !.current_step = "welcome"], ComboUnderAge,
                       <<>>, "show_benefits_response")
           ELSE IF Truthy(age) /\ age.t \notin {"int", "inf"}
           THEN \* 18 <= age raises TypeError
                Result(state, ComboApology, <<>>, "except")
           ELSE IF ~Truthy(age) \/ age.t = "inf" \/ ~(18 <= age.v /\ age.v <= 60)
           THEN Result([state EXCEPT !.current_step = "get_age_manually"],
                       Resp("message", "enter_age_for_estimate", "get_age_manually", <<>>),
                       <<>>, "show_benefits_response")
           ELSE Result([state EXCEPT !.current_step = "get_package"],
                       Resp("buttons", "select_package", "get_package", PackageButtons),
                       <<>>, "show_benefits_response")
      ELSE IF normalized_msg = <<"n","o","t","_","n","o","w">>
      THEN Result([state EXCEPT !.current_step = "end_conversation"],
                  Resp("buttons", "understood", "end_conversation", MainMenuButton),
                  <<>>, "show_benefits_response")
      ELSE Result(state, ComboBenefitsResponse, <<>>, "show_benefits_response")

ComboGetAgeManually(state, normalized_msg) ==
  LET age == IntOfStr(normalized_msg)
  IN  IF ~age.ok
      THEN Result(state, Resp("message", "enter_valid_number", "get_age_manually", <<>>),
                  <<>>, "get_age_manually")
      ELSE IF age.v < 18
      THEN Result([state EXCEPT !.current_step = "welcome"], ComboUnderAge,
                  <<>>, "get_age_manually")
      ELSE IF age.v <= 60
      THEN Result([state EXCEPT !.age = PInt(age.v), !.user_data.age = PInt(age.v),
                                !.current_step = "get_package"],
                  Resp("buttons", "select_package_for_age", "get_package", PackageButtons),
                  <<>>, "get_age_manually")
      ELSE Result(state, Resp("message", "age_must_be_18_60", "get_age_manually", <<>>),
                  <<>>, "get_age_manually")

\* package_names
package_names(tier) ==
  CASE tier = 1 -> PStr(<<"S","i","l","v","e","r"," ","-"," ","E","s","s","e","n","t","i","a","l"," ","P","r","o","t","e","c","t","i","o","n">>)
    [] tier = 2 -> PStr(<<"G","o","l","d"," ","-"," ","B","a","l","a","n","c","e","d"," ","P","r","o","t","e","c","t","i","o","n">>)
    [] tier = 3 -> PStr(<<"P","l","a","t","i","n","u","m"," ","-"," ","C","o","m","p","r","e","h","e","n","s","i","v","e"," ","P","r","o","t","e","c","t","i","o","n">>)

\* _get_plan_estimate_message: the estimate's figures, or ValueError
get_plan_estimate_message(age, package_tier) ==
  LET c == calculate_combo_tier(age, package_tier)
  IN  IF c.error # "" THEN Raise("ValueError") ELSE Ok(c)

ComboGetPackage(state, normalized_msg) ==
  LET age_check == ComboAge(state)
      package_tier == NatOf(normalized_msg)
      s1 == [state EXCEPT !.package_tier = PInt(package_tier),
                          !.user_data.package_tier = PInt(package_tier)]
      age == ComboAge(s1)
      c == calculate_combo_tier(age, PInt(package_tier))
  IN  IF age_check # PNone /\ IsInt(age_check) /\ age_check.v < 18
      THEN Result([state EXCEPT !.current_step = "welcome"], ComboUnderAge,
                  <<>>, "get_package")
      ELSE IF StrIsDigit(normalized_msg) /\ package_tier \in {1, 2, 3}
      THEN IF ~Truthy(age)
           THEN Result([s1 EXCEPT !.current_step = "get_age_manually"],
                       Resp("message", "enter_age_first", "get_age_manually", <<>>),
                       <<>>, "get_package")
           ELSE IF c.error # ""
           THEN Result(s1, Resp("message", "calculator_error", "get_package", <<>>),
                       <<>>, "get_package")
           ELSE Result([s1 EXCEPT !.user_data.package_choice = PInt(package_tier),
                                  !.user_data.package_name = package_names(package_tier),
                                  !.user_data.annual_premium = c.annual,
                                  !.user_data.monthly_premium = c.monthly,
                                  !.current_step = "confirm_package"],
                       Estimate("buttons", "plan_estimate", "confirm_package", YesNoButtons,
                                c.annual, c.monthly),
                       <<>>, "get_package")
      ELSE Result(state, Resp("buttons", "select_a_package", "get_package", PackageButtons),
                  <<>>, "get_package")

ComboConfirmPackage(state, normalized_msg) ==
  LET age == ComboAge(state)
      package_tier == Or(state.package_tier, Get(state.user_data.package_tier))
      e == get_plan_estimate_message(age, package_tier)
  IN  IF normalized_msg \in { <<"y","e","s">>, <<"p","r","o","c","e","e","d">>, <<"y">> }
      THEN Result([state EXCEPT !.current_step = "follow_up_contact"],
                  Estimate("buttons", "excellent_choice", "follow_up_contact", YesNoButtons,
                           GetOr(state.user_data.annual_premium, PInt(0)),
                           GetOr(state.user_data.monthly_premium, PInt(0))),
                  <<>>, "confirm_package")
      ELSE IF normalized_msg \in { <<"n","o">>, <<"c","h","a","n","g","e">>, <<"n">> }
      THEN Result([state EXCEPT !.current_step = "get_package"],
                  Resp("buttons", "select_another_package", "get_package", PackageButtons),
                  <<>>, "confirm_package")
      ELSE IF Truthy(age) /\ Truthy(package_tier)
      THEN IF e.ok
           THEN Result(state,
                       Estimate("buttons", "plan_estimate", "confirm_package", YesNoButtons,
                                e.v.annual, e.v.monthly),
                       <<>>, "confirm_package")
           ELSE Result(state, ComboApology, <<>>, "except")
      ELSE Result([state EXCEPT !.current_step = "get_package"],
                  Resp("buttons", "select_package_first", "get_package", PackageButtons),
                  <<>>, "confirm_package")

\* the row _append_to_google_sheet hands to append_row_to_sheet
ComboRow(state, package_tier, contact_requested) ==
  << GetOr(state.user_data.name, PStr(<<"N","/","A">>)),
     GetOr(state.user_data.dob, PStr(<<>>)), GetOr(state.user_data.email, PStr(<<>>)),
     PStr(<<>>), PStr(<<>>), PStr(<<>>), PStr(<<>>), PStr(<<>>),
     PStr(<<"p","e","r","l","i","n","d","u","n","g","a","n","_","c","o","m","b","o">>), PNone, PNone, PNone, PNone, PNone, PNone,
     PStr(StrOf(package_tier)),
     PStr(IF contact_requested THEN <<"Y","e","s",","," ","C","o","n","t","a","c","t"," ","R","e","q","u","e","s","t","e","d">> ELSE <<"N","o",","," ","C","o","n","t","a","c","t"," ","D","e","c","l","i","n","e","d">>) >>

\* _append_to_google_sheet: the rows handed to the sink and the value returned
append_to_google_sheet(state, package_tier, contact_requested, sink) ==
  IF sink = "none" THEN [rows |-> <<>>, success |-> FALSE]
  ELSE IF ~Truthy(Get(state.user_data.name)) \/ ~Truthy(Get(state.user_data.email))
  THEN [rows |-> <<>>, success |-> FALSE]
  ELSE [rows |-> << ComboRow(state, package_tier, contact_requested) >>,
        success |-> sink = "ok"]

ComboFollowUpContact(state, normalized_msg, sink) ==
  LET package_tier == Get(state.user_data.package_tier)
      yes == append_to_google_sheet(state, package_tier, TRUE, sink)
      no == append_to_google_sheet(state, package_tier, FALSE, sink)
  IN  IF ~Truthy(package_tier)
      THEN Result([state EXCEPT !.current_step = "end_conversation"],
                  Resp("buttons", "something_went_wrong", "end_conversation", MainMenuButton),
                  <<>>, "follow_up_contact")
      ELSE IF normalized_msg \in { <<"y","e","s">>, <<"c","o","n","t","a","c","t">>, <<"y">>, <<"c","o","n","t","a","c","t"," ","m","e">> }
      THEN IF yes.success
           THEN Result([state EXCEPT !.user_data.contact_requested = PBool(TRUE),
                                     !.current_step = "end_conversation"],
                       Resp("buttons", "agent_will_contact", "end_conversation", MainMenuButton),
                       yes.rows, "follow_up_contact")
           ELSE Result([state EXCEPT !.current_step = "end_conversation"],
                       Resp("buttons", "follow_up_soon_issue_logged", "end_conversation",
                            MainMenuButton),
                       yes.rows, "follow_up_contact")
      ELSE IF normalized_msg \in { <<"n","o">>, <<"n","o"," ","t","h","a","n","k","s">>, <<"n">> }
      THEN Result([state EXCEPT !.current_step = "end_conversation"],
                  Resp("buttons", "no_problem", "end_conversation", MainMenuButton),
                  no.rows, "follow_up_contact")
      ELSE Result(state,
                  Resp("buttons", "regarding_your_plan", "follow_up_contact", YesNoButtons),
                  <<>>, "follow_up_contact")

\* the step chain of process_message, inside its try block
ComboDispatch(state, message_content, normalized_msg, sink) ==
  IF state.user_data.next_step \in OnboardingSteps
  THEN ComboOnboarding(state, message_content)
  ELSE IF state.current_step = "welcome" \/ normalized_msg \in { <<"s","t","a","r","t">>, <<"b","e","g","i","n">> }
  THEN ComboWelcome(state)
  ELSE IF state.current_step = "after_welcome"
  THEN ComboAfterWelcome(state, normalized_msg)
  ELSE IF state.current_step = "show_benefits_response"
  THEN ComboShowBenefitsResponse(state, normalized_msg)
  ELSE IF state.current_step = "get_age_manually"
  THEN ComboGetAgeManually(state, normalized_msg)
  ELSE IF state.current_step = "get_package"
  THEN ComboGetPackage(state, normalized_msg)
  ELSE IF state.current_step = "confirm_package"
  THEN ComboConfirmPackage(state, normalized_msg)
  ELSE IF state.current_step = "follow_up_contact"
  THEN ComboFollowUpContact(state, normalized_msg, sink)
  ELSE IF state.current_step = "end_conversation"
  THEN Result(state, Resp("buttons", "thanks_for_chatting", "end_conversation", MainMenuButton),
              <<>>, "end_conversation")
  ELSE Result([state EXCEPT !.current_step = "welcome"], ComboWelcomeResponse,
              <<>>, "unknown_state")

ComboResetResponse == Resp("reset_to_main", "welcome_back", "get_name", <<>>)

\* PerlindunganComboCampaign.process_message, on the session get_state returned
ComboProcessMessage(st, message, ctx, sink) ==
  LET m == ComboMerge(st, ctx)
      message_content == ComboContent(message)
      normalized_msg == IF IsStr(message_content) THEN Strip(Lower(message_content.v))
                        ELSE <<>>
  IN  IF m.exc # "" THEN Result(m.st, Escaped(m.exc), <<>>, "raised")
      ELSE IF normalized_msg = <<"m","a","i","n","_","m","e","n","u">>
      THEN Result(CampaignState, ComboResetResponse, <<>>, "global")
      ELSE ComboDispatch(m.st, message_content, normalized_msg, sink)


-----------------------------------------------------------------------------
(* Google_Sheet.py: the keyword mapping applied to a row before it is appended *)

\* the dicts, as sequences of <<key, label>>
FINANCIAL_MAPPING ==
  << << <<"i","n","c","o","m","e","_","p","r","o","t","e","c","t","i","o","n">>, <<"F","a","m","i","l","y"," ","I","n","c","o","m","e">> >>,
     << <<"m","e","d","i","c","a","l","_","e","x","p","e","n","s","e","s">>, <<"M","e","d","i","c","a","l"," ","E","x","p","e","n","s","e","s">> >>,
     << <<"e","d","u","c","a","t","i","o","n">>, <<"E","d","u","c","a","t","i","o","n">> >>,
     << <<"w","e","a","l","t","h","_","b","u","i","l","d","i","n","g">>, <<"W","e","a","l","t","h"," ","B","u","i","l","d","i","n","g">> >>,
     << <<"r","e","t","i","r","e","m","e","n","t">>, <<"R","e","t","i","r","e","m","e","n","t">> >>,
     << <<"s","g","s","a">>, <<"S","a","t","u"," ","G","a","j","i"," ","S","a","t","u"," ","H","a","r","a","p","a","n">> >>,
     << <<"t","a","b","u","n","g","_","w","a","r","i","s","a","n">>, <<"T","a","b","u","n","g"," ","W","a","r","i","s","a","n">> >>,
     << <<"m","d","a","k">>, <<"T","a","b","u","n","g"," ","W","a","r","i","s","a","n">> >>,
     << <<"t","a","b","u","n","g","_","p","e","r","u","b","a","t","a","n">>, <<"T","a","b","u","n","g"," ","P","e","r","u","b","a","t","a","n">> >>,
     << <<"p","e","r","l","i","n","d","u","n","g","a","n","_","c","o","m","b","o">>, <<"P","e","r","l","i","n","d","u","n","g","a","n"," ","C","o","m","b","o">> >> >>

LIFE_STAGE_MAPPING ==
  << << <<"s","t","a","r","t","i","n","g","_","f","a","m","i","l","y">>, <<"S","t","a","r","t","i","n","g"," ","F","a","m","i","l","y">> >>,
     << <<"r","a","i","s","i","n","g","_","c","h","i","l","d","r","e","n">>, <<"R","a","i","s","i","n","g"," ","C","h","i","l","d","r","e","n">> >>,
     << <<"h","o","m","e">>, <<"H","o","m","e">> >>,
     << <<"p","r","e","_","r","e","t","i","r","e","m","e","n","t">>, <<"P","r","e"," ","R","e","t","i","r","e","m","e","n","t">> >>,
     << <<"s","i","n","g","l","e">>, <<"S","i","n","g","l","e">> >>,
     << <<"r","e","t","i","r","e","d">>, <<"R","e","t","i","r","e","d">> >> >>

COVERAGE_MAPPING ==
  << << <<"1">>, <<"B","a","s","i","c">> >>, << <<"2">>, <<"M","e","d","i","u","m">> >>, << <<"3">>, <<"C","o","m","p","r","e","h","e","n","s","i","v","e">> >> >>

\* key in mapping
HasKey(mapping, key) == \E i \in 1..Len(mapping) : mapping[i][1] = key

\* mapping[key]
Lookup(mapping, key) ==
  mapping[CHOOSE i \in 1..Len(mapping) : mapping[i][1] = key][2]

\* s.replace(old, new) for single characters
ReplaceChar(s, old, new) == [i \in 1..Len(s) |-> IF s[i] = old THEN new ELSE s[i]]

\* str(text).strip().lower().replace(" ", "_").replace("-", "_")
normalize_keyword(text) ==
  ReplaceChar(ReplaceChar(Lower(Strip(StrOf(text))), " ", "_"), "-", "_")

\* the cell map_keywords appends for one cell of the row
MapCell(cell) ==
  LET normalized == normalize_keyword(cell)
  IN  IF HasKey(LIFE_STAGE_MAPPING, normalized)
      THEN PStr(Lookup(LIFE_STAGE_MAPPING, normalized))
      ELSE IF HasKey(FINANCIAL_MAPPING, normalized)
      THEN PStr(Lookup(FINANCIAL_MAPPING, normalized))
      ELSE IF HasKey(COVERAGE_MAPPING, normalized)
      THEN PStr(Lookup(COVERAGE_MAPPING, normalized))
      ELSE PStr(Strip(StrOf(cell)))

map_keywords(row) == [i \in 1..Len(row) |-> MapCell(row[i])]
-----------------------------------------------------------------------------
(* The state machine *)

\* no calculator has been called
NoCalc == [fn |-> ""]

\* no request yet
NoMessage == [user |-> ""]

\* the request's call has not happened yet
NoCall == [pre_step |-> "", branch |-> "", sink |-> ""]

\* the responses that decline a user for an age below 18
IneligibleKinds == {"under_age", "age_at_least_18"}

\* the message is one of the reset commands, as text or as a payload
IsResetCommand(message) ==
  /\ IsStr(WarisanPayload(message))
  /\ Strip(Lower(WarisanPayload(message).v)) \in WarisanGlobalCommands

\* no coroutine is scheduled on the event loop
NoTasks == [before |-> NoSession, message |-> <<>>, user_data |-> <<>>, pc |-> <<>>,
            held |-> <<>>, rows |-> <<>>]

\* the campaign singletons share no state: a behaviour follows one of them
Init ==
  /\ campaign \in Campaigns
  /\ states = [u \in Users |-> NoSession]
  /\ inbox = NoMessage
  /\ last_call = NoCall
  /\ response = NoResponse
  /\ sheet_calls = <<>>
  /\ declined = [u \in Users |-> FALSE]
  /\ calc = NoCalc
  /\ alone = [u \in Users |-> NoSession]
  /\ logged = [u \in Users |-> FALSE]
  /\ entered = 0
  /\ tasks = NoTasks

\* the transport takes a user's next message and the context for it: a new request,
\* whose response and sink calls are still to come
Receive ==
  /\ inbox = NoMessage \/ last_call # NoCall
  /\ \E u \in Users, ctx \in Contexts(campaign) :
       \E message \in Sendable(campaign, states[u]) :
         inbox' = [user |-> u, message |-> message, user_data |-> ctx]
  /\ last_call' = NoCall
  /\ response' = NoResponse
  /\ sheet_calls' = <<>>
  /\ UNCHANGED <<campaign, states, declined, calc, alone, logged, entered, tasks>>

process_message(c, st, message, ctx, sink) ==
  CASE c = "warisan"   -> WarisanProcessMessage(st, message, ctx, sink)
    [] c = "perubatan" -> PerubatanProcessMessage(st, message, ctx, sink)
    [] c = "combo"     -> ComboProcessMessage(st, message, ctx, sink)

\* the request's call process_message(user_id, message, ws, user_data) of campaign c;
\* what the sink does is drawn when the call hands it a row, or in Combo finds it
\* unbound.  declined records the history of the user's session: it got a response
\* of IneligibleKinds, and every call since came without context and was not a
\* reset command.  logged records that a call handed a row to the sink since the
\* user's last reset
Call(c) ==
  /\ campaign = c
  /\ inbox # NoMessage
  /\ last_call = NoCall
  /\ \E st \in { get_state(c, states, inbox.user) }, sink \in SinkModes(c) :
       \E r0 \in { process_message(c, st, inbox.message, inbox.user_data, "ok") } :
         \E r \in { IF r0.rows = <<>> \/ sink = "ok" THEN r0
                     ELSE process_message(c, st, inbox.message, inbox.user_data, sink) } :
           /\ sink # "ok" => r0.rows # <<>>
           /\ states' = [states EXCEPT ![inbox.user] = r.st]
           /\ last_call' = [pre_step |-> st.current_step, branch |-> r.branch,
                            sink |-> IF r0.rows # <<>> THEN sink ELSE ""]
           /\ response' = r.resp
           /\ sheet_calls' = r.rows
           /\ declined' = [declined EXCEPT ![inbox.user] =
                              IF r.resp.kind \in IneligibleKinds THEN TRUE
                              ELSE IF IsResetCommand(inbox.message) \/ CtxTruthy(inbox.user_data)
                              THEN FALSE ELSE @]
           /\ logged' = [logged EXCEPT ![inbox.user] =
                            IF r.rows # <<>> THEN TRUE
                            ELSE IF IsResetCommand(inbox.message)
                                    \/ r.resp.type = "reset_to_main"
                            THEN FALSE ELSE @]
  /\ UNCHANGED <<campaign, inbox, calc>>

WarisanCall == Call("warisan") /\ UNCHANGED <<alone, entered, tasks>>

PerubatanCall == Call("perubatan") /\ UNCHANGED <<alone, entered, tasks>>

ComboCall == Call("combo") /\ UNCHANGED <<alone, entered, tasks>>

Next == Receive \/ WarisanCall \/ PerubatanCall \/ ComboCall

Spec == Init /\ [][Next]_vars


-----------------------------------------------------------------------------
(* The dialogue of a co-operative user, without external context *)

\* the eligible ages the user of campaign c may give
EligibleAges(c) ==
  CASE c = "warisan"   -> {18, 35, 36, 45, 46, 70}
    [] c = "perubatan" -> {18, 40, 64}
    [] c = "combo"     -> {18, 25, 26, 35, 36, 44, 45, 54}

AgeTexts(c) == { StrOfNat(a) : a \in EligibleAges(c) }

\* what the user answers to the response of the given kind: a valid, eligible
\* answer that accepts what the campaign proposes; "" is no response yet
Cooperative(c, kind) ==
  CASE kind \in {"", "returning", "returning_to_main_menu", "welcome_back"} -> { <<"h","i">> }
    [] c = "warisan" /\ kind = "welcome" -> { <<"y","e","s","_","b","e","n","e","f","i","t","s">> }
    [] c = "warisan" /\ kind = "benefits" -> { <<"y","e","s","_","c","o","v","e","r","a","g","e">> }
    [] c = "warisan" /\ kind = "ask_legacy_amount" -> { <<"5","0","0","0","0","0">>, <<"1","0","0","0","0","0","0">>, <<"o","t","h","e","r","_","a","m","o","u","n","t">> }
    [] c = "warisan" /\ kind = "enter_custom_amount" -> { <<"2","5","0","0","0","0">> }
    [] c = "warisan" /\ kind = "ask_age" -> AgeTexts(c)
    [] c = "warisan" /\ kind \in {"estimate_typed_age", "estimate_known_age"}
         -> { <<"c","o","n","t","a","c","t","_","a","g","e","n","t">>, <<"n","o","_","c","o","n","t","a","c","t">> }
    [] c = "perubatan" /\ kind = "welcome" -> { <<"y","e","s">> }
    [] c = "perubatan" /\ kind \in {"plan_explanation", "estimation_question"} -> { <<"y","e","s","_","e","s","t","i","m","a","t","e">> }
    [] c = "perubatan" /\ kind \in {"select_coverage_level", "select_valid_coverage_level"}
         -> { <<"1">>, <<"3">> }
    [] c = "perubatan" /\ kind = "age_required" -> { <<"1">>, <<"3">>, <<"m","a","i","n","_","m","e","n","u">> } \cup AgeTexts(c)
    [] c = "perubatan" /\ kind = "estimate" -> { <<"c","o","n","t","a","c","t","_","a","g","e","n","t">>, <<"n","o","_","c","o","n","t","a","c","t">> }
    [] c = "combo" /\ kind = "ask_name" -> { <<"A","n","n">> }
    [] c = "combo" /\ kind = "ask_dob" -> { <<"0","1","/","0","2","/","1","9","8","6">> }
    [] c = "combo" /\ kind = "ask_email" -> { <<"a","@","b",".","c">> }
    [] c = "combo" /\ kind \in {"ask_age", "enter_age_for_estimate"} -> AgeTexts(c)
    [] c = "combo" /\ kind = "welcome" -> { <<"l","e","a","r","n","_","m","o","r","e">> }
    [] c = "combo" /\ kind = "benefits" -> { <<"s","h","o","w","_","e","s","t","i","m","a","t","e">> }
    [] c = "combo" /\ kind \in {"select_package", "select_package_for_age"} -> { <<"1">>, <<"2">>, <<"3">> }
    [] c = "combo" /\ kind = "plan_estimate" -> { <<"y","e","s">> }
    [] c = "combo" /\ kind = "excellent_choice" -> { <<"y","e","s">>, <<"n","o">> }
    [] OTHER -> {}

\* the user answers the response on screen; no context comes with the message
Answer ==
  /\ inbox = NoMessage \/ last_call # NoCall
  /\ \E u \in Users, message \in Cooperative(campaign, response.kind) :
       inbox' = [user |-> u, message |-> PStr(message), user_data |-> PNone]
  /\ last_call' = NoCall
  /\ response' = NoResponse
  /\ sheet_calls' = <<>>
  /\ UNCHANGED <<campaign, states, declined, calc, alone, logged, entered, tasks>>

DialogueNext == Answer \/ WarisanCall \/ PerubatanCall \/ ComboCall

\* the user keeps answering as long as there is a question, and every request is
\* served
Dialogue == Init /\ [][DialogueNext]_vars /\ WF_vars(DialogueNext)

-----------------------------------------------------------------------------
(* The premium calculators, called directly *)

\* the ages, tiers and legacy amounts (RM) the calculators are called with
CalcAges == 0..75

CalcTiers == 0..4

CalcAmounts == {0 - 1000, 0, 1000, 250000, 1000000}

\* what a calculator returns: the annual and the monthly premium it computes
\* (PNone for one it does not) and the name of its error text ("" for none)
Outcome(annual, monthly, error) == [annual |-> annual, monthly |-> monthly, error |-> error]

\* the call of campaign c's calculator
Calculate(c, age, tier, amount) ==
  CASE c = "warisan" ->
         Outcome(WarisanAnnual(amount * 100, age), PNone, "")
    [] c = "perubatan" ->
         LET e == estimate_medical_premium(PInt(age), tier)
         IN  Outcome(PNone, PCents(e.premium), e.error)
    [] c = "combo" ->
         LET r == calculate_combo_tier(PInt(age), PInt(tier))
         IN  Outcome(r.annual, r.monthly, r.error)

CalcVars == <<states, inbox, last_call, response, sheet_calls, declined, alone, logged,
              entered, tasks>>

\* state.calculate_warisan_premium_estimation(legacy_amount, age)
WarisanEstimation ==
  /\ campaign = "warisan"
  /\ \E age \in CalcAges, amount \in CalcAmounts :
       calc' = [fn |-> campaign, age |-> age, tier |-> 0, amount |-> amount,
                out |-> Calculate(campaign, age, 0, amount)]
  /\ UNCHANGED <<campaign, CalcVars>>

\* self.estimate_medical_premium(age, coverage_level)
MedicalEstimation ==
  /\ campaign = "perubatan"
  /\ \E age \in CalcAges, tier \in CalcTiers :
       calc' = [fn |-> campaign, age |-> age, tier |-> tier, amount |-> 0,
                out |-> Calculate(campaign, age, tier, 0)]
  /\ UNCHANGED <<campaign, CalcVars>>

\* self.calculate_combo_tier(age, package_tier)
ComboEstimation ==
  /\ campaign = "combo"
  /\ \E age \in CalcAges, tier \in CalcTiers :
       calc' = [fn |-> campaign, age |-> age, tier |-> tier, amount |-> 0,
                out |-> Calculate(campaign, age, tier, 0)]
  /\ UNCHANGED <<campaign, CalcVars>>

CalculatorsNext == WarisanEstimation \/ MedicalEstimation \/ ComboEstimation

Calculators == Init /\ [][CalculatorsNext]_vars

-----------------------------------------------------------------------------
(* Two users of one campaign, their calls interleaved *)

Pair == {"u1", "u2"}

\* what the two users send: a walk to the estimate and the offer, and a reset
PairMessages(c) ==
  CASE c = "warisan"   -> { PStr(<<"y","e","s">>), PStr(<<"1","0","0","0","0","0","0">>), PStr(<<"4","0">>), PStr(<<"m","a","i","n","_","m","e","n","u">>) }
    [] c = "perubatan" -> { PStr(<<"y","e","s">>), PStr(<<"e","s","t","i","m","a","t","e">>), PStr(<<"3">>), PStr(<<"m","a","i","n","_","m","e","n","u">>) }
    [] c = "combo"     -> { PStr(<<"l","e","a","r","n","_","m","o","r","e">>), PStr(<<"s","h","o","w","_","e","s","t","i","m","a","t","e">>), PStr(<<"1">>),
                            PStr(<<"y","e","s">>), PStr(<<"m","a","i","n","_","m","e","n","u">>) }

\* the second user's requests all carry the context, the first user's may
PairContexts(u) ==
  { Ctx(PInt(40), PStr(<<"A","n","n">>), PStr(<<"a","@","b",".","c">>)) } \cup (IF u = "u1" THEN { PNone } ELSE {})

InitPair ==
  /\ campaign \in Campaigns
  /\ states = [u \in Pair |-> NoSession]
  /\ inbox = NoMessage
  /\ last_call = NoCall
  /\ response = NoResponse
  /\ sheet_calls = <<>>
  /\ declined = [u \in Pair |-> FALSE]
  /\ calc = NoCalc
  /\ alone = [u \in Pair |-> NoSession]
  /\ logged = [u \in Pair |-> FALSE]
  /\ entered = 0
  /\ tasks = NoTasks

\* the next request is of either user
ReceiveFrom ==
  /\ inbox = NoMessage \/ last_call # NoCall
  /\ \E u \in Pair, message \in PairMessages(campaign) :
       \E ctx \in PairContexts(u) :
         inbox' = [user |-> u, message |-> message, user_data |-> ctx]
  /\ last_call' = NoCall
  /\ response' = NoResponse
  /\ sheet_calls' = <<>>
  /\ UNCHANGED <<campaign, states, declined, calc, alone, logged, entered, tasks>>

\* a store that holds the session st of user u and no other
Only(u, st) == [w \in Pair |-> IF w = u THEN st ELSE NoSession]

\* the call of the request on a campaign that has served its user only, with the
\* sink doing what it does in the call made
Solo(c, sink) ==
  process_message(c, get_state(c, Only(inbox.user, alone[inbox.user]), inbox.user),
                  inbox.message, inbox.user_data, IF sink = "" THEN "ok" ELSE sink)

\* the request's call, and the same call replayed for the user alone
PairCall ==
  /\ \E c \in Campaigns : Call(c)
  /\ alone' = [alone EXCEPT ![inbox.user] = Solo(campaign, last_call'.sink).st]
  /\ UNCHANGED <<entered, tasks>>

TwoUsersNext == ReceiveFrom \/ PairCall

TwoUsers == InitPair /\ [][TwoUsersNext]_vars

-----------------------------------------------------------------------------
(* Two calls for one user, scheduled as coroutines on one event loop *)

\* a call that suspends at the agent-contact offer, as it would by awaiting the sink
Suspends_at_offer(c, step) == step = "offer_agent_contact" \/ step = "follow_up_contact"

\* process_message of campaign c, entered at this step, awaits something that
\* yields to the event loop before its last write to the session: the coroutines
\* it awaits (_handle_legacy_amount, _handle_age, process_message itself) contain
\* no await of their own, and the sink is called synchronously
Suspends(c, step) == FALSE

\* the message that accepts the agent-contact offer of campaign c
AcceptMessage(c) == IF c = "combo" THEN PStr(<<"y","e","s">>) ELSE PStr(<<"c","o","n","t","a","c","t","_","a","g","e","n","t">>)

LoopMessages(c) == PairMessages(c) \cup { AcceptMessage(c) }

LoopContexts == { PNone, Ctx(PInt(40), PStr(<<"A","n","n">>), PStr(<<"a","@","b",".","c">>)) }

\* asyncio.gather of two process_message coroutines for the same user
Gather ==
  /\ tasks = NoTasks
  /\ \E m1 \in LoopMessages(campaign), m2 \in LoopMessages(campaign) :
       \E c1 \in LoopContexts, c2 \in LoopContexts :
         tasks' = [before |-> states["u1"], message |-> <<m1, m2>>,
                   user_data |-> <<c1, c2>>, pc |-> <<"ready", "ready">>,
                   held |-> <<NoSession, NoSession>>, rows |-> << <<>>, <<>> >>]
  /\ UNCHANGED <<campaign, states, inbox, last_call, response, sheet_calls, declined,
                 calc, alone, logged, entered>>

\* the event loop runs a ready coroutine until it suspends or returns; a coroutine
\* that suspended goes on with the session it had read
RunTask ==
  \E i \in DOMAIN tasks.pc :
    /\ tasks.pc[i] \in {"ready", "suspended"}
    /\ \E st \in { IF tasks.pc[i] = "suspended" THEN tasks.held[i]
                   ELSE get_state(campaign, states, "u1") } :
         IF tasks.pc[i] = "ready" /\ Suspends(campaign, st.current_step)
         THEN /\ tasks' = [tasks EXCEPT !.pc[i] = "suspended", !.held[i] = st]
              /\ UNCHANGED <<states, sheet_calls>>
         ELSE \E r \in { process_message(campaign, st, tasks.message[i],
                                         tasks.user_data[i], "ok") } :
                /\ states' = [states EXCEPT !["u1"] = r.st]
                /\ sheet_calls' = r.rows
                /\ tasks' = [tasks EXCEPT !.pc[i] = "done", !.rows[i] = r.rows]
    /\ UNCHANGED <<campaign, inbox, last_call, response, declined, calc, alone, logged,
                   entered>>

\* gather returns when both coroutines have returned
Join ==
  /\ tasks.pc = <<"done", "done">>
  /\ tasks' = NoTasks
  /\ sheet_calls' = <<>>
  /\ UNCHANGED <<campaign, states, inbox, last_call, response, declined, calc, alone,
                 logged, entered>>

ConcurrentNext == Gather \/ RunTask \/ Join

Concurrent == Init /\ [][ConcurrentNext]_vars

-----------------------------------------------------------------------------
(* How often one operation enters process_message *)

\* the entries after which the count of a call is given up
MaxEntries == 4

\* the steps the dispatcher of Tabung Perubatan tests before its fallback
PerubatanHandled ==
  {"", "welcome", "check_interest_response", "ask_estimation",
   "handle_estimation_response", "get_coverage_level", "offer_agent_contact",
   "get_contact_info", "end_conversation"}

RECURSIVE PerubatanEntries_keeping_step(_, _, _, _)
\* a fallback that calls process_message again without storing the step welcome
PerubatanEntries_keeping_step(st, message, ctx, fuel) ==
  IF fuel = 0 THEN 0
  ELSE LET m == PerubatanMerge(st, ctx)
       IN  IF \/ m.exc # ""
              \/ Lower(PerubatanText(message)) \in PerubatanGlobalCommands
              \/ m.st.current_step \in PerubatanHandled
           THEN 1
           ELSE 1 + PerubatanEntries_keeping_step(m.st, PStr(<<"s","t","a","r","t">>), ctx, fuel - 1)

RECURSIVE PerubatanEntries(_, _, _, _)
\* the number of times process_message of Tabung Perubatan is entered for one
\* incoming message: the unknown-state fallback stores the step welcome and calls
\* process_message again with "start" and the same context
PerubatanEntries(st, message, ctx, fuel) ==
  IF fuel = 0 THEN 0
  ELSE LET m == PerubatanMerge(st, ctx)
       IN  IF \/ m.exc # ""
              \/ Lower(PerubatanText(message)) \in PerubatanGlobalCommands
              \/ m.st.current_step \in PerubatanHandled
           THEN 1
           ELSE 1 + PerubatanEntries([m.st EXCEPT !.current_step = "welcome"],
                                     PStr(<<"s","t","a","r","t">>), ctx, fuel - 1)

\* process_message of Warisan and of Combo holds no call of process_message
Entries(c, st, message, ctx) ==
  IF c = "perubatan" THEN PerubatanEntries(st, message, ctx, MaxEntries) ELSE 1

\* the request's call, with its entries counted
CountedCall ==
  /\ \E c \in Campaigns : Call(c)
  /\ entered' = Entries(campaign, get_state(campaign, states, inbox.user),
                        inbox.message, inbox.user_data)
  /\ UNCHANGED <<alone, tasks>>

\* PerlindunganComboCampaign.show_premium_estimate(state, user_id): the confirmation
\* is simulated by process_message(user_id, {"value": "yes"}, user_data=state.user_data)
show_premium_estimate(state) ==
  IF ~Truthy(Get(state.user_data.age)) \/ ~Truthy(Get(state.user_data.package_tier))
  THEN Result(state, Resp("message", "missing_age_or_package", "welcome", <<>>),
              <<>>, "show_premium_estimate")
  ELSE [ComboProcessMessage([state EXCEPT !.current_step = "confirm_package"],
                            Dict(PStr(<<"y","e","s">>), Absent),
                            Ctx(state.user_data.age, state.user_data.name,
                                state.user_data.email), "ok")
          EXCEPT !.branch = "show_premium_estimate"]

\* a caller runs show_premium_estimate on the session of the user, between requests
ShowPremiumEstimate ==
  /\ campaign = "combo"
  /\ inbox = NoMessage \/ last_call # NoCall
  /\ states["u1"] # NoSession
  /\ \E r \in { show_premium_estimate(states["u1"]) } :
       /\ states' = [states EXCEPT !["u1"] = r.st]
       /\ response' = r.resp
       /\ sheet_calls' = r.rows
       /\ entered' = IF r.resp.kind = "missing_age_or_package" THEN 0
                     ELSE Entries("combo", states["u1"], inbox'.message, inbox'.user_data)
  /\ inbox' = [user |-> "u1", message |-> Dict(PStr(<<"y","e","s">>), Absent),
               user_data |-> Ctx(states["u1"].user_data.age, states["u1"].user_data.name,
                                 states["u1"].user_data.email)]
  /\ last_call' = [pre_step |-> states["u1"].current_step,
                   branch |-> "show_premium_estimate", sink |-> ""]
  /\ UNCHANGED <<campaign, declined, calc, alone, logged, tasks>>

\* the walk to the offer, the answers that end a conversation, and a reset
ReentryMessages(c) == LoopMessages(c) \cup { PStr(<<"n","o">>), PStr(<<"o","t","h","e","r">>) }

\* the next request, drawn from ReentryMessages and the onboarding answers
Request ==
  /\ inbox = NoMessage \/ last_call # NoCall
  /\ \E ctx \in LoopContexts, message \in Sendable(campaign, states["u1"]) :
       /\ message \in Messages(campaign) => message \in ReentryMessages(campaign)
       /\ inbox' = [user |-> "u1", message |-> message, user_data |-> ctx]
  /\ last_call' = NoCall
  /\ response' = NoResponse
  /\ sheet_calls' = <<>>
  /\ UNCHANGED <<campaign, states, declined, calc, alone, logged, entered, tasks>>

ReentryNext == Request \/ CountedCall \/ ShowPremiumEstimate

Reentry == Init /\ [][ReentryNext]_vars

-----------------------------------------------------------------------------
(* map_keywords on rows drawn from a set of cells *)

\* keywords as the campaigns write them, other spellings of keywords, labels, and
\* cells that are no keyword
SheetCells ==
  { PStr(<<"s","t","a","r","t","i","n","g","_","f","a","m","i","l","y">>), PStr(<<" ","P","r","e","-","R","e","t","i","r","e","m","e","n","t"," ">>), PStr(<<"T","a","b","u","n","g"," ","W","a","r","i","s","a","n">>),
    PStr(<<"M","D","A","K">>), PStr(<<"p","e","r","l","i","n","d","u","n","g","a","n"," ","c","o","m","b","o">>), PStr(<<"s","t","a","r","t","i","n","g","f","a","m","i","l","y">>),
    PStr(<<"t","a","b","u","n","g"," "," ","w","a","r","i","s","a","n">>), PStr(<<"1">>), PStr(<<"B","a","s","i","c">>), PStr(<<" ","A","n","n"," ","L","e","e"," ">>),
    PStr(<<>>), PNone, PInt(2) }

SheetRows ==
  { <<>> } \cup { <<a>> : a \in SheetCells }
           \cup { <<a, b>> : a \in SheetCells, b \in SheetCells }

\* map_keywords(row), and map_keywords of what it returned
MapKeywords ==
  /\ \E row \in SheetRows :
       \E out \in { map_keywords(row) } :
         calc' = [fn |-> "map_keywords", row |-> row, out |-> out,
                  again |-> map_keywords(out)]
  /\ UNCHANGED <<campaign, CalcVars>>

Keywords == Init /\ [][MapKeywords]_vars
-----------------------------------------------------------------------------
(* Properties of process_message *)

\* the request's call has returned or raised
Called == last_call # NoCall

\* the session of the request's user, as get_state would return it now
Session == get_state(campaign, states, inbox.user)

\* the context merge of campaign c, on session st
Merge(c, st, ctx) ==
  CASE c = "warisan"   -> WarisanMerge(st, ctx)
    [] c = "perubatan" -> PerubatanMerge(st, ctx)
    [] c = "combo"     -> ComboMerge(st, ctx)

\* the request's context makes the merge raise an exception its own except clause
\* does not catch
ContextFault == Merge(campaign, NewState(campaign), inbox.user_data).exc # ""

\* the request's message is this text
Sent(text) == inbox.message = PStr(text)

ResetDone == response.type = "reset_to_main" /\ Session.current_step = "welcome"

C2_GlobalCommandsReset ==
  (Called /\ (Sent(<<"m","a","i","n","_","m","e","n","u">>) \/ Sent(<<"r","e","s","t","a","r","t">>) \/ Sent(<<"s","t","a","r","t">>)) /\ ~ContextFault)
    => ResetDone

\* C3: no call of process_message lets an exception escape to its caller
C3_NoFaultEscapes == response.type # "(raised)"

\* C4: a call that ends in the failure boundary leaves the session at the step
\* welcome, the next_step its apology announces
C4_FailureBoundaryResets ==
  (Called /\ last_call.branch = "except")
    => (response.next_step = "welcome" /\ Session.current_step = "welcome")

\* the step at which campaign c offers the agent contact
OfferStep(c) == IF c = "combo" THEN "follow_up_contact" ELSE "offer_agent_contact"

\* the responses that complete an accepted and a declined offer
AcceptedKinds(c) ==
  CASE c = "warisan"   -> {"thanks_contact_requested"}
    [] c = "perubatan" -> {"agent_will_contact"}
    [] c = "combo"     -> {"agent_will_contact", "follow_up_soon_issue_logged"}

DeclinedKinds(c) ==
  CASE c = "warisan"   -> {"thanks_contact_declined"}
    [] c = "perubatan" -> {"thanks_for_interest"}
    [] c = "combo"     -> {"no_problem"}

\* the request's call took the offer step's accept, or decline, transition
Accepted ==
  Called /\ last_call.pre_step = OfferStep(campaign) /\ last_call.branch = OfferStep(campaign)
  /\ response.kind \in AcceptedKinds(campaign)

Declined ==
  Called /\ last_call.pre_step = OfferStep(campaign) /\ last_call.branch = OfferStep(campaign)
  /\ response.kind \in DeclinedKinds(campaign)

\* the contact status of a row: its last column
StatusOf(row) == row[Len(row)]

\* C5: an accept or decline transition out of the offer step hands the lead sink
\* exactly one row, whose contact status is the user's choice
C5_LeadLoggedOnce ==
  /\ Accepted => (Len(sheet_calls) = 1
                  /\ StatusOf(sheet_calls[1]) = PStr(<<"Y","e","s",","," ","C","o","n","t","a","c","t"," ","R","e","q","u","e","s","t","e","d">>))
  /\ Declined => (Len(sheet_calls) = 1
                  /\ StatusOf(sheet_calls[1]) = PStr(<<"N","o",","," ","C","o","n","t","a","c","t"," ","D","e","c","l","i","n","e","d">>))

\* the idle end steps: where the accept, decline and ineligible transitions of
\* campaign c leave the session
EndSteps(c) ==
  CASE c = "warisan"   -> {"main_menu"}
    [] c = "perubatan" -> {"contact_confirmed", "end_options", "end_conversation"}
    [] c = "combo"     -> {"end_conversation"}

\* the request's message is plain text that is none of the reset commands
NonGlobalText ==
  /\ IsStr(inbox.message)
  /\ Strip(Lower(inbox.message.v)) \notin { <<"m","a","i","n","_","m","e","n","u">>, <<"r","e","s","t","a","r","t">>, <<"s","t","a","r","t">> }

\* the response offers the return-to-main-menu button
OffersMainMenu == InSeq(response.buttons, <<"m","a","i","n","_","m","e","n","u">>)

\* C6: at an idle end step every message other than a reset command leaves
\* current_step unchanged and gets a response with the main-menu button
C6_EndStepAbsorbing ==
  (Called /\ last_call.pre_step \in EndSteps(campaign) /\ NonGlobalText /\ ~ContextFault)
    => (Session.current_step = last_call.pre_step /\ OffersMainMenu)

\* the texts that fail validation at a step of campaign c: an unparseable or
\* out-of-range age, an amount below the minimum, an unrecognised option or tier
InvalidInputs(c, step) ==
  CASE c = "warisan" /\ step = "get_age" -> { <<"a","b","c">>, <<"7","1">> }
    [] c = "warisan" /\ step \in {"get_legacy_amount", "get_custom_legacy_amount"}
         -> { <<"a","b","c">>, <<"5","0","0">> }
    [] c = "warisan" /\ step \in {"handle_welcome_response", "handle_benefits_response",
                                   "offer_agent_contact"} -> { <<"a","b","c">> }
    [] c = "perubatan" /\ step = "get_coverage_level" -> { <<"a","b","c">>, <<"2">> }
    [] c = "perubatan" /\ step \in {"check_interest_response", "handle_estimation_response",
                                     "offer_agent_contact"} -> { <<"a","b","c">> }
    [] c = "combo" /\ step \in {"get_age_manually", "get_age"} -> { <<"a","b","c">>, <<"7","1">> }
    [] c = "combo" /\ step \in {"after_welcome", "show_benefits_response", "get_package",
                                 "confirm_package", "follow_up_contact"} -> { <<"a","b","c">> }
    [] OTHER -> {}

\* the request's message fails validation at the step the session was in
InvalidSent ==
  /\ IsStr(inbox.message)
  /\ inbox.message.v \in InvalidInputs(campaign, last_call.pre_step)

\* a request is waiting for its call
Pending == inbox # NoMessage /\ last_call = NoCall

\* the age a session of campaign c holds
AgeOf(c, st) ==
  CASE c = "warisan"   -> st.user_age
    [] c = "perubatan" -> st.age
    [] c = "combo"     -> ComboAge(st)

\* the session's age is known and below the minimum of 18
UnderAge == IsInt(AgeOf(campaign, Session)) /\ AgeOf(campaign, Session).v < 18

\* a request without context is waiting whose message fails validation at the
\* session's step
InvalidPending ==
  /\ Pending
  /\ ~CtxTruthy(inbox.user_data)
  /\ IsStr(inbox.message)
  /\ inbox.message.v \in InvalidInputs(campaign, Session.current_step)

\* the call leaves the whole session as it was (its step and every collected
\* field), and submitting the same message again gets the same next_step and again
\* leaves the session as it was
RepromptKeeps ==
  LET again == process_message(campaign, Session', inbox.message, inbox.user_data, "ok")
  IN  /\ Session' = Session
      /\ again.st = Session
      /\ again.resp.next_step = response'.next_step

C7_InvalidInputReprompts ==
  (Called /\ InvalidSent /\ ~CtxTruthy(inbox.user_data) /\ ~UnderAge)
    => /\ Session.current_step = last_call.pre_step
       /\ response.next_step \in {last_call.pre_step, NoStep}
       /\ response.type # "(raised)"
       /\ last_call.branch # "except"

\* the steps of campaign c that collect estimate data or follow an estimate
EstimateSteps(c) ==
  CASE c = "warisan"   -> {"get_legacy_amount", "get_custom_legacy_amount", "get_age",
                           "offer_agent_contact"}
    [] c = "perubatan" -> {"get_coverage_level", "offer_agent_contact"}
    [] c = "combo"     -> {"get_age_manually", "get_package", "confirm_package",
                           "follow_up_contact"}

\* the response shows a premium
ShowsPremium == response.annual # PNone \/ response.monthly # PNone

\* C9: a session whose age is below 18 is never moved on to a step that collects
\* estimate data or follows an estimate, and never gets a response with a premium
C9_UnderAgeDeclined ==
  (Called /\ UnderAge)
    => /\ ~ShowsPremium
       /\ (Session.current_step # last_call.pre_step
             => Session.current_step \notin EstimateSteps(campaign))

\* the responses that report a failure of the premium calculator
CalculatorErrorKinds ==
  {"age_required", "age_at_least_18", "age_between_18_and_64", "invalid_coverage_level",
   "calculator_error"}

\* C10: a call in which the premium calculator reports a failure moves the session
\* to an idle end step
C10_CalculatorFailureEnds ==
  (Called /\ response.kind \in CalculatorErrorKinds)
    => Session.current_step \in EndSteps(campaign)


\* the call showed a premium estimate or made the agent-contact offer
EstimateOrOffer ==
  \/ ShowsPremium
  \/ response.next_step = OfferStep(campaign)
  \/ Session.current_step = OfferStep(campaign)

\* C11: once a session has received the under-age response, no further messages
\* without a reset command (and, here, without context) lead it to a premium
\* estimate or to the agent-contact offer
C11_UnderAgeTerminal ==
  (Called /\ declined[inbox.user]) => ~EstimateOrOffer

\* the call did to the session and returned exactly what it does when the append
\* succeeds
AsWhenAppendSucceeds ==
  LET ok == process_message(campaign, Session, inbox.message, inbox.user_data, "ok")
  IN  response' = ok.resp /\ states'[inbox.user] = ok.st

\* C12: an accept or decline transition returns the same response and leaves the
\* same session whether the lead sink appends the row, raises or is unbound
C12_SinkFailureInvisible ==
  [][ (Pending /\ (Accepted' \/ Declined')) => AsWhenAppendSucceeds ]_vars

\* a value the context merge cannot use for a field: empty (falsy), or not
\* parseable as the integer the field holds
Unusable(field, x) ==
  x # Absent /\ (~Truthy(x) \/ (field = "age" /\ ~PyInt(x).ok))

\* the session the merge of the waiting request's context leaves
Merged == Merge(campaign, Session, inbox.user_data).st

\* C13: the merge of a context whose age, name or email is empty or unparseable
\* leaves what the session held for that field, in its own attribute and in its
\* user_data map, unchanged
C13_MergeKeepsOnUnusable ==
  (Pending /\ CtxTruthy(inbox.user_data))
    => /\ Unusable("age", inbox.user_data.age)
            => /\ Merged.user_data.age = Session.user_data.age
               /\ AgeOf(campaign, Merged) = AgeOf(campaign, Session)
       /\ Unusable("name", inbox.user_data.name)
            => Merged.user_data.name = Session.user_data.name
       /\ Unusable("email", inbox.user_data.email)
            => Merged.user_data.email = Session.user_data.email

\* the waiting request's message is a button payload {value: v} with a text v
ButtonPending ==
  Pending /\ inbox.message.t = "dict" /\ IsStr(inbox.message.value)

\* the call did to the session and returned exactly what it does for the plain
\* text message v
AsPlainText ==
  LET plain == process_message(campaign, Session, inbox.message.value, inbox.user_data, "ok")
  IN  response' = plain.resp /\ states'[inbox.user] = plain.st

\* C14: at every step of every campaign a button payload {value: v} produces the
\* same transition and response as the plain text message v
C14_ButtonAsText == [][ ButtonPending => AsPlainText ]_vars

\* the welcome response of campaign c and the step that awaits its answer
WelcomeOf(c) ==
  CASE c = "warisan"   -> [resp |-> WarisanWelcomeResponse, step |-> "handle_welcome_response"]
    [] c = "perubatan" -> [resp |-> PerubatanWelcomeResponse, step |-> "check_interest_response"]
    [] c = "combo"     -> [resp |-> ComboWelcomeResponse, step |-> "after_welcome"]

\* a text message that is no reset command is waiting for a new or freshly reset
\* session, with a context that merges without a fault
FirstMessagePending ==
  /\ Pending /\ Session = NewState(campaign)
  /\ IsStr(inbox.message) /\ ~IsResetCommand(inbox.message) /\ ~ContextFault

\* C15: the first message of a new session that is no reset command gets the
\* campaign's welcome response with its buttons and moves the session to the step
\* that awaits the welcome answer; nothing of the message is stored
C15_FirstMessageWelcomes ==
  [][ FirstMessagePending
        => /\ response' = WelcomeOf(campaign).resp
           /\ Session'.current_step = WelcomeOf(campaign).step
           /\ Session'.user_data = Merged.user_data ]_vars

\* C16: from a new session and without context, a user who gives a valid and
\* eligible answer at each prompt is shown a premium estimate and gets to answer
\* the agent-contact offer
C16_DialogueReachesEstimate == <>ShowsPremium /\ <>(Accepted \/ Declined)

\* the eligibility band of campaign c's ages, and its tiers
AgeBand(c) ==
  CASE c = "warisan" -> 18..70 [] c = "perubatan" -> 18..64 [] c = "combo" -> 18..54

TiersOf(c) ==
  CASE c = "warisan" -> {0} [] c = "perubatan" -> {1, 3} [] c = "combo" -> {1, 2, 3}

\* inputs the calculator of campaign c must price
Eligible(c, age, tier, amount) ==
  age \in AgeBand(c) /\ tier \in TiersOf(c) /\ (c = "warisan" => amount > 0)

\* a calculator has been called with the inputs recorded in calc
Calculated == calc # NoCalc

\* C17: a calculator called with an age outside the campaign's band, an unknown
\* tier or a non-positive amount returns an error and no premium
C17_CalculatorsReject ==
  (Calculated /\ ~Eligible(calc.fn, calc.age, calc.tier, calc.amount))
    => calc.out.error # ""

\* the premium of an outcome: the annual one, or the monthly one of a calculator
\* that computes no annual one
PremiumOf(out) == IF out.annual # PNone THEN out.annual.v ELSE out.monthly.v

\* C18: for eligible inputs the premium does not fall when the age rises within
\* the band with the tier (or the legacy amount) fixed, nor when the tier rises
\* with the age fixed
C18_PremiumMonotone ==
  (Calculated /\ Eligible(calc.fn, calc.age, calc.tier, calc.amount))
    => /\ \A b \in AgeBand(calc.fn) :
            b >= calc.age
              => PremiumOf(Calculate(calc.fn, b, calc.tier, calc.amount)) >= PremiumOf(calc.out)
       /\ \A t \in TiersOf(calc.fn) :
            t > calc.tier
              => PremiumOf(Calculate(calc.fn, calc.age, t, calc.amount)) >= PremiumOf(calc.out)

C18_Witness ==
  /\ Calculated /\ calc.fn = "combo" /\ calc.age = 35 /\ calc.tier = 2
  /\ calc.out = Outcome(PCents(360000), PCents(30000), "")
  /\ PremiumOf(Calculate("combo", 36, 2, 0)) > PremiumOf(calc.out)
  /\ PremiumOf(Calculate("combo", 35, 3, 0)) > PremiumOf(calc.out)

\* the age factor of the legacy premium, in tenths
AgeFactor10(age) == IF age <= 35 THEN 48 ELSE IF age <= 45 THEN 90 ELSE 170

C20_MedicalPremium ==
  (Calculated /\ calc.fn = "perubatan"
   /\ Eligible(calc.fn, calc.age, calc.tier, calc.amount))
    => LET base == IF calc.age <= 21 THEN 11300
                   ELSE IF calc.age <= 25 THEN 12300
                   ELSE IF calc.age <= 30 THEN 13300
                   ELSE IF calc.age <= 33 THEN 14300
                   ELSE RoundDiv(age_annual_premiums[calc.age - 33], 12)
       IN  /\ calc.out.error = ""
           /\ calc.tier = 3 => calc.out.monthly = PCents(base)
           /\ calc.tier = 1 => calc.out.monthly = PCents(base - 2000)
           /\ (calc.age = 40 /\ calc.tier = 3) => calc.out.monthly = PCents(16793)

\* the annual premiums of Silver, Gold and Platinum in the age bands 18-25, 26-35,
\* 36-44 and 45-54, in ringgit
ComboAnnual(tier, age) ==
  LET band == CASE age \in 18..25 -> 1 [] age \in 26..35 -> 2
                [] age \in 36..44 -> 3 [] age \in 45..54 -> 4
  IN  (CASE tier = 1 -> <<2400, 2800, 3600, 4000>>
         [] tier = 2 -> <<3500, 3600, 4200, 5000>>
         [] tier = 3 -> <<4000, 5400, 6300, 8400>>)[band]

\* C21: for every tier 1, 2, 3 and every age 18 to 54, calculate_combo_tier
\* returns the annual premium of the tier's age band and monthly = annual / 12
\* rounded to the cent, with no error; age 30 with Gold gives 3600 and 300.00
C21_ComboPremium ==
  (Calculated /\ calc.fn = "combo" /\ calc.tier \in {1, 2, 3} /\ calc.age \in 18..54)
    => /\ calc.out.error = ""
       /\ calc.out.annual = PCents(ComboAnnual(calc.tier, calc.age) * 100)
       /\ calc.out.monthly = PCents((ComboAnnual(calc.tier, calc.age) * 200 + 12) \div 24)
       /\ (calc.age = 30 /\ calc.tier = 2)
            => (calc.out.annual = PCents(360000) /\ calc.out.monthly = PCents(30000))

C21_Witness ==
  /\ Calculated /\ calc.fn = "combo" /\ calc.age = 30 /\ calc.tier = 2
  /\ calc.out = Outcome(PCents(360000), PCents(30000), "")

\* the steps process_message has a handler for: the steps its dispatcher tests
\* current_step against, and in Combo the onboarding steps it finds in
\* user_data['next_step']
ValidSteps(c) ==
  CASE c = "warisan" ->
         {"", "welcome", "handle_welcome_response", "handle_benefits_response",
          "get_legacy_amount", "get_custom_legacy_amount", "get_age",
          "offer_agent_contact", "main_menu"}
    [] c = "perubatan" ->
         {"welcome", "check_interest_response", "ask_estimation",
          "handle_estimation_response", "get_coverage_level", "offer_agent_contact",
          "get_contact_info", "end_conversation"}
    [] c = "combo" ->
         {"welcome", "after_welcome", "show_benefits_response", "get_package",
          "get_age_manually", "confirm_package", "follow_up_contact",
          "end_conversation", "get_name", "get_dob", "get_email", "get_age"}

\* C22: the current_step of every session is a step the campaign's dispatcher
\* has a handler for
C22_StepIsValid ==
  \A u \in Users :
    states[u] # NoSession => states[u].current_step \in ValidSteps(campaign)

\* the fields of a session that hold a non-empty value: attributes of the state
\* object and entries of its user_data, but for user_data['next_step'], the
\* cursor of Combo's onboarding, which is not collected data
Held(st) ==
  { <<"state", k>> : k \in { f \in DOMAIN st \ {"current_step", "user_data", "welcome_shown"} :
                                Truthy(st[f]) } }
  \cup { <<"user_data", k>> : k \in { f \in DOMAIN st.user_data \ {"next_step"} :
                                    Truthy(st.user_data[f]) } }

\* C23: a call that is not a reset command leaves every field that held a
\* non-empty value holding a non-empty value
C23_CollectedAccumulates ==
  [][ (Pending /\ ~IsResetCommand(inbox.message)) => Held(Session) \subseteq Held(Session') ]_vars

\* C24: a call for one user changes no session of another user, and gives the
\* response and the session it gives when the user's calls are the only calls
C24_UsersIndependent ==
  [][ Pending
        => /\ \A v \in DOMAIN states \ {inbox.user} : states'[v] = states[v]
           /\ response' = Solo(campaign, last_call'.sink).resp
           /\ states'[inbox.user] = Solo(campaign, last_call'.sink).st ]_vars

C24_Witness ==
  /\ Called /\ inbox.user = "u2"
  /\ states["u1"] # NoSession /\ states["u2"] # NoSession
  /\ states["u1"].current_step = OfferStep(campaign)
  /\ states["u2"].current_step \notin {"welcome", OfferStep(campaign)}
  /\ states["u1"].user_data # states["u2"].user_data

\* C25: once a user's request has been served, the store holds a session for
\* that user: no call removes it
C25_SessionKept == Called => states[inbox.user] # NoSession

\* the user the request is not of
Other == CHOOSE v \in DOMAIN states : v # inbox.user

\* two sessions agree on current_step and on all collected data
Agree(a, b) ==
  /\ DOMAIN a = DOMAIN b
  /\ \A f \in DOMAIN a \ {"welcome_shown"} : a[f] = b[f]

\* C26: when the sessions of two users agree on current_step and on all collected
\* data, the call of one user's request gives the response and the successor that
\* the same message and context give on the other user's session, whatever the
\* sink does
C26_Deterministic ==
  [][ (Pending /\ Agree(Session, get_state(campaign, states, Other)))
        => LET r == process_message(campaign, get_state(campaign, states, Other),
                                    inbox.message, inbox.user_data, "ok")
           IN  response' = r.resp /\ Agree(states'[inbox.user], r.st) ]_vars

\* the Combo session is at get_package, past onboarding, with an age of 18 to 60,
\* and the request chooses a package 1, 2 or 3 and brings no context
PackageChosen ==
  /\ Pending /\ campaign = "combo" /\ inbox.user_data = PNone
  /\ Session.current_step = "get_package"
  /\ Session.user_data.next_step = Absent
  /\ IsInt(Session.age) /\ Session.age.v \in 18..60
  /\ inbox.message \in { PStr(<<"1">>), PStr(<<"2">>), PStr(<<"3">>) }

\* C27: at get_package of Combo, with an age the age steps accept (18 to 60),
\* choosing package 1, 2 or 3 shows the estimate and moves to confirm_package
C27_AcceptedAgeGetsEstimate ==
  [][ PackageChosen => (ShowsPremium' /\ Session'.current_step = "confirm_package") ]_vars

\* C28: when the response of a call carries a next_step, the session's
\* current_step after the call is that step
C28_NextStepIsCurrentStep ==
  (Called /\ response.next_step # NoStep) => Session.current_step = response.next_step

\* what the campaign does when the user's next message is text, without context
NextCall(text) == process_message(campaign, Session, PStr(text), PNone, "ok")

\* the next message text is not recognised: it falls into the unknown-step
\* fallback, or it leaves the step where it is with the response and the session
\* that a text no step recognises gets
Unrecognised(text) ==
  \/ NextCall(text).branch = "unknown_state"
  \/ /\ NextCall(text).st # NoSession
     /\ NextCall(text).st.current_step = Session.current_step
     /\ NextCall(text).resp = NextCall(<<"a","b","c">>).resp
     /\ NextCall(text).st = NextCall(<<"a","b","c">>).st

\* C29: every button value of the response of a call is recognised when it comes
\* back as the next message
C29_ButtonsRecognised ==
  (Called /\ response.type # "(raised)")
    => \A i \in 1..Len(response.buttons) : ~Unrecognised(response.buttons[i])

\* C30: in Combo, once the onboarding has ended with an accepted age and the
\* welcome has been returned, the next message "learn_more" gets the benefits and
\* moves the session to show_benefits_response
C30_LearnMoreAfterOnboarding ==
  [][ ( /\ Pending /\ campaign = "combo" /\ inbox.user_data = PNone
        /\ Session.current_step = "after_onboarding"
        /\ Sent(<<"l","e","a","r","n","_","m","o","r","e">>) )
        => (response'.kind = "benefits" /\ Session'.current_step = "show_benefits_response") ]_vars

\* C31: once a call has handed a lead row to the sink, no later call of the same
\* conversation (no reset command in between) hands it another
C31_OneLeadPerConversation ==
  [][ (Pending /\ logged[inbox.user] /\ ~IsResetCommand(inbox.message))
        => sheet_calls' = <<>> ]_vars

\* the legacy amount, in cents, a session or a lead row holds (0 when it holds none)
LegacyOf(v) == IF v.t \in {"float", "currency"} THEN v.v ELSE 0

LegacyInputsValid ==
  /\ LegacyOf(Session.desired_legacy) >= 1000 * 100
  /\ Session.user_age.t = "int"
  /\ 18 <= Session.user_age.v /\ Session.user_age.v <= 70

\* C32: in Tabung Warisan a call shows a premium estimate only when the legacy amount
\* it used is at least RM 1,000 and the age it used is 18..70, and every lead row
\* handed to the sink carries a legacy amount of at least RM 1,000
C32_LegacyEstimateInputs ==
  (Called /\ campaign = "warisan")
    => /\ ShowsPremium => LegacyInputsValid
       /\ \A i \in 1..Len(sheet_calls) : LegacyOf(sheet_calls[i][12]) >= 1000 * 100

C32_Witness ==
  /\ Called /\ campaign = "warisan" /\ ShowsPremium
  /\ response.kind = "estimate_known_age"
  /\ LegacyInputsValid

\* what calculate_combo_tier returns for the age and tier a Combo session holds
CurrentComboPremium == calculate_combo_tier(ComboAge(Session), Session.package_tier)

\* C33: a Combo session at confirm_package or follow_up_contact stores, and a
\* response with a premium shows, the annual and monthly premium calculate_combo_tier
\* returns for the age and tier the session holds now
C33_ConfirmedPremiumCurrent ==
  (Called /\ campaign = "combo"
     /\ Session.current_step \in {"confirm_package", "follow_up_contact"})
    => /\ Session.user_data.annual_premium = CurrentComboPremium.annual
       /\ Session.user_data.monthly_premium = CurrentComboPremium.monthly
       /\ ShowsPremium => /\ response.annual = CurrentComboPremium.annual
                          /\ response.monthly = CurrentComboPremium.monthly

\* C34: after a call answered with the reset response, the user's session holds
\* nothing collected before or during that call: it is the session get_state
\* creates for a new user, whatever the call's context held
C34_ResetLeavesNothing ==
  (Called /\ response.type = "reset_to_main") => Session = NewState(campaign)

C34_Witness ==
  /\ Called /\ response.type = "reset_to_main"
  /\ CtxTruthy(inbox.user_data) /\ ~ContextFault
  /\ last_call.pre_step = OfferStep(campaign)
  /\ Session = NewState(campaign)

\* the session and the number of lead rows after the gathered calls were run one
\* after the other, call i first
SerialOrder(i, j) ==
  LET first == process_message(campaign,
                               get_state(campaign, [u \in Users |-> tasks.before], "u1"),
                               tasks.message[i], tasks.user_data[i], "ok")
      second == process_message(campaign,
                                get_state(campaign, [u \in Users |-> first.st], "u1"),
                                tasks.message[j], tasks.user_data[j], "ok")
  IN  [st |-> second.st, leads |-> Len(first.rows) + Len(second.rows)]

\* the session and the number of lead rows the two coroutines left
Gathered == [st |-> states["u1"], leads |-> Len(tasks.rows[1]) + Len(tasks.rows[2])]

BothAcceptAtOffer ==
  /\ tasks.pc = <<"done", "done">>
  /\ tasks.before # NoSession
  /\ tasks.before.current_step = OfferStep(campaign)
  /\ tasks.message = << AcceptMessage(campaign), AcceptMessage(campaign) >>

EstimateShown == Called /\ last_call.branch = "show_premium_estimate"

\* C36 as stated: a call of process_message enters it at most twice (the fallback
\* re-enters at most once), and show_premium_estimate re-enters it exactly once
C36_ReentersExactlyOnce ==
  Called => /\ entered < MaxEntries
            /\ IF EstimateShown THEN entered = 1 ELSE entered \in {1, 2}

\* C36, amended: every operation terminates; a call of process_message enters it
\* at most twice, twice exactly when Tabung Perubatan's unknown-step fallback took
\* it, and show_premium_estimate re-enters it once when the session holds an age
\* and a package tier and not at all when it returns its missing-data message
C36_ReentryBounded ==
  Called => /\ entered < MaxEntries
            /\ IF EstimateShown
               THEN entered = IF response.kind = "missing_age_or_package" THEN 0 ELSE 1
               ELSE /\ entered \in {1, 2}
                    /\ entered = 2 <=> (campaign = "perubatan"
                                          /\ last_call.branch = "unknown_state")

C36_Witness ==
  /\ Called /\ campaign = "perubatan" /\ ~EstimateShown
  /\ last_call.pre_step = "end_options" /\ entered = 2
  /\ Session.current_step = "check_interest_response"

\* a text without its spaces, hyphens and underscores, in lower case
IsLetterOrDigit(c) == c \notin {" ", "-", "_"}

Canon(s) == SelectSeq(Lower(Strip(s)), IsLetterOrDigit)

AllKeywords == LIFE_STAGE_MAPPING \o FINANCIAL_MAPPING \o COVERAGE_MAPPING

\* the cell is a known keyword, matched case-insensitively and ignoring spaces,
\* hyphens and underscores
KnownKeyword(cell) ==
  \E i \in 1..Len(AllKeywords) : Canon(AllKeywords[i][1]) = Canon(StrOf(cell))

LabelOf(cell) ==
  AllKeywords[CHOOSE i \in 1..Len(AllKeywords) :
                Canon(AllKeywords[i][1]) = Canon(StrOf(cell))][2]

Mapped == calc.fn = "map_keywords"

\* C37: map_keywords returns a row of the length and order of its input, in which
\* every known keyword (matched without regard to case, spaces, hyphens and
\* underscores) is replaced by its label and every other cell is its trimmed
\* string, and mapping its output again changes nothing
C37_MapKeywords ==
  Mapped
    => /\ Len(calc.out) = Len(calc.row)
       /\ \A i \in 1..Len(calc.row) :
            calc.out[i] = IF KnownKeyword(calc.row[i]) THEN PStr(LabelOf(calc.row[i]))
                          ELSE PStr(Strip(StrOf(calc.row[i])))
       /\ calc.again = calc.out

\* the plan identifier campaign c writes into a lead row
PlanOf(c) ==
  CASE c = "warisan" -> <<"t","a","b","u","n","g","_","w","a","r","i","s","a","n">> [] c = "perubatan" -> <<"t","a","b","u","n","g","_","p","e","r","u","b","a","t","a","n">>
    [] c = "combo" -> <<"p","e","r","l","i","n","d","u","n","g","a","n","_","c","o","m","b","o">>

\* the profile columns of a row: the name, dob and email the session holds, and five
\* columns for values the campaigns never collect
ProfileOf(row) ==
  /\ \A k \in 1..3 : row[k].t \in {"str", "none", "int"}
  /\ \A k \in 4..8 : row[k] = PStr(<<>>)

\* C38: every row handed to the lead sink has 17 fields: the profile in fields 1
\* to 8, the campaign's plan identifier in field 9, the contact status of the
\* user's choice in the last field, and in Tabung Perubatan six empty columns after
\* the plan identifier followed by the coverage level
C38_LeadRowLayout ==
  \A i \in 1..Len(sheet_calls) :
    /\ Len(sheet_calls[i]) = 17
    /\ ProfileOf(sheet_calls[i])
    /\ sheet_calls[i][9] = PStr(PlanOf(campaign))
    /\ StatusOf(sheet_calls[i]) \in { PStr(<<"Y","e","s",","," ","C","o","n","t","a","c","t"," ","R","e","q","u","e","s","t","e","d">>),
                                      PStr(<<"N","o",","," ","C","o","n","t","a","c","t"," ","D","e","c","l","i","n","e","d">>) }
    /\ campaign = "perubatan"
         => /\ \A k \in 10..15 : sheet_calls[i][k] = PNone
            /\ sheet_calls[i][16].t = "str" /\ sheet_calls[i][16].v \in { <<"1">>, <<"3">> }
====
